---- MODULE Spec2Model ----
(***************************************************************************)
(* commitgen: the generation control loop (internal/app/run.go), the four  *)
(* provider adapters (openai, ollama, anthropic, gemini) and the prompt    *)
(* assembler / answer extraction (internal/vscodeprompt/prompt.go).        *)
(*                                                                         *)
(* A Go string is modelled as a sequence of tokens.  A token is either one *)
(* character (space, newline, a word character, a punctuation character), *)
(* the three-backtick fence, or an atomic chunk of literal text.           *)
(***************************************************************************)
EXTENDS Integers, Sequences, FiniteSets, TLC

\* Bounds of the exploration (not program constants).
MaxCycles == 2   \* generation cycles per run (1 + number of regenerations)
MaxEdits == 2    \* Edit decisions per run

Nil == <<>>      \* the nil error / the empty string

(***************************************************************************)
(* strings                                                                 *)
(***************************************************************************)
Fence == "FENCE"   \* the three backticks of a markdown code fence
WordChars == {"a", "b"}
SpaceChars == {" ", "\n", "\t", "\r"}

IsSpace(c) == c \in SpaceChars
IsWord(c) == c \in WordChars

RECURSIVE TrimLeftSpace(_)
TrimLeftSpace(s) ==
    IF s # <<>> /\ IsSpace(Head(s)) THEN TrimLeftSpace(Tail(s)) ELSE s

RECURSIVE TrimRightSpace(_)
TrimRightSpace(s) ==
    IF s # <<>> /\ IsSpace(s[Len(s)])
    THEN TrimRightSpace(SubSeq(s, 1, Len(s) - 1))
    ELSE s

\* strings.TrimSpace
TrimSpace(s) == TrimRightSpace(TrimLeftSpace(s))

RECURSIVE TrimRightNewline(_)
\* strings.TrimRight(s, "\n")
TrimRightNewline(s) ==
    IF s # <<>> /\ s[Len(s)] = "\n"
    THEN TrimRightNewline(SubSeq(s, 1, Len(s) - 1))
    ELSE s

\* strings.Contains(s, tok) for a literal that is one token of the model
Contains(s, tok) == \E k \in 1..Len(s) : s[k] = tok

RECURSIVE Concat(_)
\* concatenation of a sequence of strings
Concat(ss) ==
    IF ss = <<>> THEN <<>>
    ELSE IF Len(ss) = 1 THEN ss[1]
    ELSE Concat(SubSeq(ss, 1, Len(ss) \div 2))
         \o Concat(SubSeq(ss, Len(ss) \div 2 + 1, Len(ss)))

(***************************************************************************)
(* internal/vscodeprompt/prompt.go : the prompt assembler                  *)
(***************************************************************************)
\* The PromptData values the run is started with.
PromptDatas ==
    { [RepositoryName |-> <<"commitgen">>, BranchName |-> <<"main">>,
       RecentUserCommits |-> <<>>, RecentRepoCommits |-> <<>>,
       Changes |-> << [Path |-> <<"main.go">>,
                       Diff |-> <<"+package main", "\n">>,
                       OriginalCode |-> <<"<attachment main.go>">>] >>,
       CustomInstructions |-> <<>>],
      [RepositoryName |-> <<"commitgen">>, BranchName |-> <<"dev">>,
       RecentUserCommits |-> << <<"fix: typo">> >>,
       RecentRepoCommits |-> << <<"fix: typo">>, <<"feat: hook">> >>,
       Changes |-> << [Path |-> <<"a.go">>,
                       Diff |-> <<"+a">>,
                       OriginalCode |-> <<"<attachment a.go>">>],
                      [Path |-> <<"b.txt">>,
                       Diff |-> <<"-b", "\n", "\n">>,
                       OriginalCode |-> <<"<attachment b.txt>">>] >>,
       CustomInstructions |-> <<"Use English.", "\n">>] }

\* The fixed built-in instruction text, one literal.
systemPromptText == <<"You are an AI programming assistant ... Keep your answers short and impersonal.\n">>

BulletLinesJoined(commits) ==
    IF commits = <<>> THEN <<>> ELSE <<"- ">> \o Concat(commits) \o <<"\n">>

RECURSIVE BulletLines(_)
\* for _, c := range commits { b.WriteString("- " + c + "\n") }
BulletLines(commits) ==
    IF commits = <<>> THEN <<>>
    ELSE <<"- ">> \o Head(commits) \o <<"\n">> \o BulletLines(Tail(commits))

ChangeBlocksFirstOnly(changes) ==
    IF changes = <<>> THEN <<>>
    ELSE <<"<original-code>\n", "# ORIGINAL CODE:\n">>
         \o Head(changes).OriginalCode
         \o <<"\n</original-code>\n">>
         \o <<"<code-changes>\n", "# CODE CHANGES:\n", "FENCE", "diff\n">>
         \o TrimRightNewline(Head(changes).Diff)
         \o <<"\n", "FENCE", "\n", "</code-changes>\n">>

RECURSIVE ChangeBlocks(_)
\* for _, ch := range d.Changes { ... }
ChangeBlocks(changes) ==
    IF changes = <<>> THEN <<>>
    ELSE <<"<original-code>\n", "# ORIGINAL CODE:\n">>
         \o Head(changes).OriginalCode
         \o <<"\n</original-code>\n">>
         \o <<"<code-changes>\n", "# CODE CHANGES:\n", "FENCE", "diff\n">>
         \o TrimRightNewline(Head(changes).Diff)
         \o <<"\n", "FENCE", "\n", "</code-changes>\n">>
         \o ChangeBlocks(Tail(changes))

buildUserText(d) ==
    <<"<repository-context>\n", "# REPOSITORY DETAILS:\n", "Repository name: ">>
    \o d.RepositoryName \o <<"\n", "Branch name: ">> \o d.BranchName
    \o <<"\n\n", "</repository-context>\n">>
    \o (IF Len(d.RecentUserCommits) > 0
        THEN <<"<user-commits>\n",
               "# RECENT USER COMMITS (For reference only, do not copy!):\n">>
             \o BulletLines(d.RecentUserCommits) \o <<"\n</user-commits>\n">>
        ELSE <<>>)
    \o (IF Len(d.RecentRepoCommits) > 0
        THEN <<"<recent-commits>\n",
               "# RECENT REPOSITORY COMMITS (For reference only, do not copy!):\n">>
             \o BulletLines(d.RecentRepoCommits) \o <<"\n</recent-commits>\n">>
        ELSE <<>>)
    \o <<"<changes>\n">> \o ChangeBlocks(d.Changes) \o <<"\n</changes>\n">>
    \o <<"<reminder>\n",
         "Now generate a commit messages that describe the CODE CHANGES.\n",
         "DO NOT COPY commits from RECENT COMMITS, but use it as reference for the commit style.\n",
         "ONLY return a single markdown code block, NO OTHER PROSE!\n",
         "FENCE", "text\ncommit message goes here\n", "FENCE", "\n",
         "</reminder>\n">>
    \o <<"<custom-instructions>\n">>
    \o (IF TrimSpace(d.CustomInstructions) # <<>>
        THEN TrimRightNewline(d.CustomInstructions) \o <<"\n">>
        ELSE <<>>)
    \o <<"\n</custom-instructions>\n">>

\* VSCodeMessage{Role, Content: []VSCodeContentPart{{Type, Text}}}
VSCodeMessage(role, text) ==
    [Role |-> role, Content |-> << [Type |-> 1, Text |-> text] >>]

BuildVSCodeMessages(d) ==
    << VSCodeMessage(0, systemPromptText), VSCodeMessage(1, buildUserText(d)) >>

\* ToOpenAIMessages: role 0 is "system", every other role is "user"; the
\* content is the concatenation of the parts of type 1.
RECURSIVE TextParts(_)
TextParts(parts) ==
    IF parts = <<>> THEN <<>>
    ELSE (IF Head(parts).Type = 1 THEN Head(parts).Text ELSE <<>>)
         \o TextParts(Tail(parts))

ToOpenAIMessages(vs) ==
    [k \in 1..Len(vs) |->
        [role |-> IF vs[k].Role = 0 THEN "system" ELSE "user",
         content |-> TextParts(vs[k].Content)]]

(***************************************************************************)
(* reTextBlock: in multi-line mode, a line that starts with a fence, an    *)
(* optional run of word characters, optional white space, a lazy non-empty *)
(* group of any characters, optional white space, and a fence that ends a  *)
(* line.  A match that starts at p is described by the lengths of its four *)
(* repeated pieces: w (the word run, 0 when the optional group is          *)
(* skipped), ws1 (white space), g (the lazy group) and ws2 (white space).  *)
(***************************************************************************)
RECURSIVE WordRun(_, _)
WordRun(s, p) == IF p <= Len(s) /\ IsWord(s[p]) THEN 1 + WordRun(s, p + 1) ELSE 0

RECURSIVE SpaceRun(_, _)
SpaceRun(s, p) == IF p <= Len(s) /\ IsSpace(s[p]) THEN 1 + SpaceRun(s, p + 1) ELSE 0

AtTextStartOnly(s, p) == p = 1

\* (?m)^ : start of text or just after a newline
AtLineStart(s, p) == p = 1 \/ s[p - 1] = "\n"
\* (?m)$ : end of text or just before a newline
AtLineEnd(s, p) == p = Len(s) + 1 \/ s[p] = "\n"

\* The matches of the pattern that start at p, as the lengths of its pieces:
\* w for the tag, ws1 and ws2 for the two runs of whitespace, g for the
\* group. The closing fence stands at c and the end of a line follows it.
reMatchesAt(s, p) ==
    IF ~(p <= Len(s) /\ s[p] = Fence /\ AtLineStart(s, p)) THEN {}
    ELSE UNION { UNION { UNION {
             { [w |-> w, ws1 |-> ws1, g |-> c - (p + 1 + w + ws1) - ws2, ws2 |-> ws2] :
                 ws2 \in { k \in 0..(c - (p + 1 + w + ws1) - 1) : k <= SpaceRun(s, c - k) } } :
               c \in { q \in (p + 1 + w + ws1 + 1)..Len(s) :
                          s[q] = Fence /\ AtLineEnd(s, q + 1) } } :
             ws1 \in 0..SpaceRun(s, p + 1 + w) } :
           w \in 0..WordRun(s, p + 1) }

\* The order in which a backtracking search tries the pieces: \w+ and both
\* \s* greedy (longest first), the group lazy (shortest first).
rePriority(s, m) ==
    LET L == Len(s) + 1
    IN  (((L - m.w) * L + (L - m.ws1)) * L + m.g) * L + (L - m.ws2)

\* FindStringSubmatch: the leftmost start, and there the first match in
\* priority order; <<>> when there is no match, else <<m[0], m[1]>>.
reFindStringSubmatch(s) ==
    LET starts == { p \in 1..Len(s) : reMatchesAt(s, p) # {} }
    IN  IF starts = {} THEN <<>>
        ELSE LET p == CHOOSE q \in starts : \A r \in starts : q <= r
                 ms == reMatchesAt(s, p)
                 m == CHOOSE x \in ms :
                        \A y \in ms : rePriority(s, x) <= rePriority(s, y)
                 a == p + 1 + m.w + m.ws1
             IN  << SubSeq(s, p, a + m.g + m.ws2), SubSeq(s, a, a + m.g - 1) >>

ExtractOneTextCodeBlock(s0) ==
    LET s == TrimSpace(s0)
        m == reFindStringSubmatch(s)
    IN  IF Len(m) = 2 THEN [text |-> TrimSpace(m[2]), ok |-> TRUE]
        ELSE [text |-> s, ok |-> FALSE]

(***************************************************************************)
(* The provider adapters.  One HTTP exchange is a record                   *)
(*   transport : FALSE when client.Do failed (no response)                 *)
(*   status    : the response status code, "200" or "500"                  *)
(*   raw       : the body as text                                          *)
(*   json      : the body decodes as a JSON object                         *)
(*   hasError  : the JSON object has an "error" member                     *)
(*   items     : the texts of the answer list of the backend's schema      *)
(*               (choices / content / candidates; message for Ollama)      *)
(***************************************************************************)
StatusOK == "200"
EmptyChoices == "empty choices"

\* The texts a model answers with.
RawTexts ==
    { << Fence, "a", "\n", "a", ":", "\n", Fence >>,
      << "\n", "a", "\n" >>,
      << >> }

Exchange(st, js, er, it, rw) ==
    [transport |-> TRUE, status |-> st, json |-> js, hasError |-> er,
     items |-> it, raw |-> rw]

NoResponse ==
    [transport |-> FALSE, status |-> "", json |-> FALSE, hasError |-> FALSE,
     items |-> <<>>, raw |-> <<>>]

\* The HTTP exchanges a provider call can meet.
Responses ==
    { NoResponse,
      Exchange("500", FALSE, FALSE, <<>>, <<"Bad Gateway">>),
      Exchange("500", FALSE, FALSE, <<>>, <<"upstream: ", EmptyChoices>>),
      Exchange("500", TRUE, TRUE, <<>>, <<"{error}">>),
      Exchange("500", TRUE, FALSE, <<>>, <<"{}">>),
      Exchange(StatusOK, FALSE, FALSE, <<>>, <<"<html>">>),
      Exchange(StatusOK, TRUE, FALSE, <<>>, <<"{}">>) }
    \cup { Exchange(StatusOK, TRUE, FALSE, <<t>>, <<"{answer}">>) : t \in RawTexts }

TransportErr == <<"dial tcp: connection refused">>
JSONSyntaxErr == <<"invalid character">>

\* concatenation of the texts of all parts of a message
RECURSIVE AllParts(_)
AllParts(parts) ==
    IF parts = <<>> THEN <<>> ELSE Head(parts).Text \o AllParts(Tail(parts))

\* ---- openai ----
openaiRequest(msgs) == [system |-> <<>>, messages |-> ToOpenAIMessages(msgs)]

openaiResponse(resp) ==
    IF ~resp.transport THEN [text |-> Nil, err |-> TransportErr]
    ELSE IF ~resp.json
    THEN [text |-> Nil,
          err |-> <<"decode error: ">> \o JSONSyntaxErr \o <<"\nraw: ">> \o resp.raw]
    ELSE IF resp.hasError
    THEN [text |-> Nil, err |-> <<"llm error: ", "server error", " (", "api_error", ")">>]
    ELSE IF Len(resp.items) = 0
    THEN [text |-> Nil, err |-> <<"llm: ", EmptyChoices>>]
    ELSE [text |-> resp.items[1], err |-> Nil]

\* ---- ollama ----
ollamaRequest(msgs) ==
    [system |-> <<>>,
     messages |-> [k \in 1..Len(msgs) |->
        [role |-> CASE msgs[k].Role = 2 -> "assistant"
                    [] msgs[k].Role = 3 -> "system"
                    [] OTHER -> "user",
         content |-> AllParts(msgs[k].Content)]]]

ollamaResponse(resp) ==
    IF ~resp.transport
    THEN [text |-> Nil, err |-> <<"ollama request failed: ">> \o TransportErr]
    ELSE IF resp.status # StatusOK
    THEN [text |-> Nil,
          err |-> <<"ollama API error (status ", resp.status, "): ">> \o resp.raw]
    ELSE IF ~resp.json
    THEN [text |-> Nil, err |-> <<"decode response: ">> \o JSONSyntaxErr]
    ELSE [text |-> IF Len(resp.items) = 0 THEN <<>> ELSE resp.items[1], err |-> Nil]

\* ---- anthropic ----
RECURSIVE anthropicSystem(_)
\* systemPrompt += part.Text + "\n" for the parts of every role-3 message
anthropicSystem(msgs) ==
    IF msgs = <<>> THEN <<>>
    ELSE (IF Head(msgs).Role = 3
          THEN Concat([k \in 1..Len(Head(msgs).Content) |->
                          Head(msgs).Content[k].Text \o <<"\n">>])
          ELSE <<>>)
         \o anthropicSystem(Tail(msgs))

RECURSIVE anthropicMsgs(_)
anthropicMsgs(msgs) ==
    IF msgs = <<>> THEN <<>>
    ELSE (IF Head(msgs).Role = 3 THEN <<>>
          ELSE << [role |-> IF Head(msgs).Role = 2 THEN "assistant" ELSE "user",
                   content |-> AllParts(Head(msgs).Content)] >>)
         \o anthropicMsgs(Tail(msgs))

anthropicRequest(msgs) ==
    [system |-> TrimSpace(anthropicSystem(msgs)), messages |-> anthropicMsgs(msgs)]

anthropicResponse(resp) ==
    IF ~resp.transport
    THEN [text |-> Nil, err |-> <<"anthropic request failed: ">> \o TransportErr]
    ELSE IF resp.status # StatusOK
    THEN [text |-> Nil,
          err |-> <<"anthropic API error (status ", resp.status, "): ">> \o resp.raw]
    ELSE IF ~resp.json
    THEN [text |-> Nil, err |-> <<"decode response: ">> \o JSONSyntaxErr]
    ELSE IF Len(resp.items) = 0
    THEN [text |-> Nil, err |-> <<"empty response content">>]
    ELSE [text |-> resp.items[1], err |-> Nil]

\* ---- gemini ----
RECURSIVE geminiSystem(_)
\* systemParts: the parts of every role-3 message
geminiSystem(msgs) ==
    IF msgs = <<>> THEN <<>>
    ELSE (IF Head(msgs).Role = 3 THEN AllParts(Head(msgs).Content) ELSE <<>>)
         \o geminiSystem(Tail(msgs))

RECURSIVE geminiContents(_)
geminiContents(msgs) ==
    IF msgs = <<>> THEN <<>>
    ELSE (IF Head(msgs).Role = 3 THEN <<>>
          ELSE << [role |-> IF Head(msgs).Role = 2 THEN "model" ELSE "user",
                   content |-> AllParts(Head(msgs).Content)] >>)
         \o geminiContents(Tail(msgs))

geminiRequest(msgs) ==
    [system |-> geminiSystem(msgs), messages |-> geminiContents(msgs)]

geminiResponse(resp) ==
    IF ~resp.transport
    THEN [text |-> Nil, err |-> <<"gemini request failed: ">> \o TransportErr]
    ELSE IF resp.status # StatusOK
    THEN [text |-> Nil,
          err |-> <<"gemini API error (status ", resp.status, "): ">> \o resp.raw]
    ELSE IF ~resp.json
    THEN [text |-> Nil, err |-> <<"decode response: ">> \o JSONSyntaxErr]
    ELSE IF Len(resp.items) = 0
    THEN [text |-> Nil, err |-> <<"empty response from gemini">>]
    ELSE [text |-> resp.items[1], err |-> Nil]

Providers == {"openai", "ollama", "anthropic", "gemini"}

\* The request an adapter puts on the wire for a message list.
ProviderRequest(p, msgs) ==
    CASE p = "openai" -> openaiRequest(msgs)
      [] p = "ollama" -> ollamaRequest(msgs)
      [] p = "anthropic" -> anthropicRequest(msgs)
      [] p = "gemini" -> geminiRequest(msgs)

\* The (text, error) pair an adapter returns for an HTTP exchange.
ProviderResponse(p, resp) ==
    CASE p = "openai" -> openaiResponse(resp)
      [] p = "ollama" -> ollamaResponse(resp)
      [] p = "anthropic" -> anthropicResponse(resp)
      [] p = "gemini" -> geminiResponse(resp)

(***************************************************************************)
(* internal/app/run.go : runInteractiveLoop                                *)
(***************************************************************************)
maxRetries == 5

\* The texts the edit form returns.
EditTexts == { << >>, << "b", ":" >> }
HookFiles == { "", ".git/COMMIT_EDITMSG" }

reminderMsg ==
    VSCodeMessage(1, <<"CRITICAL INSTRUCTION: You must strictly follow the Conventional Commits specification">>)

VARIABLES
    provider,      \* the adapter Run selected
    conventional,  \* cfg.Conventional
    hookFile,      \* cfg.HookFile
    initialMsgs,   \* the base pair Run built with BuildVSCodeMessages
    msgs,          \* the loop's base list
    currentMsgs,   \* the list of the current cycle
    i,             \* index of the retry loop
    commitMsg,     \* the candidate message
    err,           \* the last error; the returned error once pc = "done"
    pc,            \* "start", "call", "confirm", "decide", "done"
    commits,       \* messages git commit was run with
    hookContent,   \* what was written to the hook file: <<>> or <<text>>
    commitArgs,    \* the messages gitx.Commit was called with
    fx,            \* a call of one of the pure functions: its input and result
    attempts,      \* provider calls of the current cycle
    cycles,        \* generation cycles started
    edits,         \* Edit decisions taken
    sent,          \* the message list given to the last provider call
    firstSent,     \* the message list given to the first provider call
    wire,          \* the request of the last provider call
    lastResp,      \* the HTTP exchange of the last provider call of the cycle
    firstErr,      \* the error the first call of the current cycle returned
    allRetryable,  \* every call of the cycle returned an "empty choices" error
    allEmptyResp,  \* every call of the cycle got status 200 with no content
    commitMsgRaw,  \* the text the last provider call returned
    shown,         \* the text in the confirmation form on display: <<>> or <<text>>
    confirms,      \* confirmation forms shown in the current cycle
    lastDecision,  \* the last step of the loop
    editRet        \* the text the last edit form of the cycle returned

params == << provider, conventional, hookFile, initialMsgs, fx >>
locals == << msgs, currentMsgs, i, commitMsg, err, pc >>
world == << commits, hookContent, commitArgs >>
callHist == << attempts, sent, firstSent, wire, lastResp, firstErr,
              allRetryable, allEmptyResp, commitMsgRaw >>
uiHist == << shown, confirms, lastDecision, editRet >>
vars == << params, locals, world, callHist, uiHist, cycles, edits >>

\* The exchange is a success status with a well-formed body and no answer.
IsEmptySuccess(resp) ==
    resp.transport /\ resp.status = StatusOK /\ resp.json
    /\ ~resp.hasError /\ resp.items = <<>>

\* No pure function is under call while the loop runs.
NoFx == [fn |-> "none"]

Init ==
    /\ fx = NoFx
    /\ commitArgs = <<>>
    /\ provider \in Providers
    /\ conventional \in BOOLEAN
    /\ hookFile \in HookFiles
    /\ initialMsgs \in { BuildVSCodeMessages(d) : d \in PromptDatas }
    /\ msgs = initialMsgs
    /\ currentMsgs = <<>>
    /\ i = 0
    /\ commitMsg = <<>>
    /\ err = Nil
    /\ pc = "start"
    /\ commits = <<>>
    /\ hookContent = <<>>
    /\ attempts = 0
    /\ cycles = 0
    /\ edits = 0
    /\ sent = <<>>
    /\ firstSent = <<>>
    /\ wire = [system |-> <<>>, messages |-> <<>>]
    /\ lastResp = NoResponse
    /\ firstErr = Nil
    /\ allRetryable = TRUE
    /\ allEmptyResp = TRUE
    /\ commitMsgRaw = <<>>
    /\ shown = <<>>
    /\ confirms = 0
    /\ lastDecision = "none"
    /\ editRet = <<>>

BaseAfterAppendInPlace(base, conv) ==
    IF conv THEN Append(base, reminderMsg) ELSE base

\* The base list after the head of the outer loop: the reminder is appended
\* to a copy (make + copy), the base keeps its two messages.
BaseAfterBuild(base, conv) == base

CurrentMsgsAlwaysReminder(base, conv) == Append(base, reminderMsg)

\* currentMsgs: a copy of the base, plus the reminder in conventional mode.
BuildCurrentMsgs(base, conv) ==
    IF conv THEN Append(base, reminderMsg) ELSE base

BeginGenerationKeepsCounter ==
    /\ pc = "start"
    /\ currentMsgs' = BuildCurrentMsgs(msgs, conventional)
    /\ msgs' = BaseAfterBuild(msgs, conventional)
    /\ i' = i
    /\ commitMsgRaw' = <<>>
    /\ commitMsg' = <<>>
    /\ err' = Nil
    /\ pc' = "call"
    /\ cycles' = cycles + 1
    /\ attempts' = 0
    /\ confirms' = 0
    /\ lastResp' = NoResponse
    /\ firstErr' = Nil
    /\ allRetryable' = TRUE
    /\ allEmptyResp' = TRUE
    /\ editRet' = <<>>
    /\ lastDecision' = "begin"
    /\ UNCHANGED << params, world, sent, firstSent, wire, shown, edits >>

\* Head of the outer loop, to the entry of the retry loop.
BeginGeneration ==
    /\ pc = "start"
    /\ currentMsgs' = BuildCurrentMsgs(msgs, conventional)
    /\ msgs' = BaseAfterBuild(msgs, conventional)
    /\ i' = 0
    /\ commitMsgRaw' = <<>>
    /\ commitMsg' = <<>>
    /\ err' = Nil
    /\ pc' = "call"
    /\ cycles' = cycles + 1
    /\ attempts' = 0
    /\ confirms' = 0
    /\ lastResp' = NoResponse
    /\ firstErr' = Nil
    /\ allRetryable' = TRUE
    /\ allEmptyResp' = TRUE
    /\ editRet' = <<>>
    /\ lastDecision' = "begin"
    /\ UNCHANGED << params, world, sent, firstSent, wire, shown, edits >>

ShouldRetryShort(e, k) == Contains(e, EmptyChoices) /\ k < maxRetries - 2

ShouldRetryAny(e, k) == k < maxRetries - 1

\* The error is retried: its text contains "empty choices" and this is not
\* the last iteration.
ShouldRetry(e, k) == Contains(e, EmptyChoices) /\ k < maxRetries - 1

\* The candidate taken from the raw answer: the extracted block, or the raw
\* text itself when extraction reports a formatting issue.
CandidateOf(raw) ==
    IF ExtractOneTextCodeBlock(raw).ok THEN ExtractOneTextCodeBlock(raw).text ELSE raw

\* One iteration of the retry loop: the provider call and what follows it.
ProviderCall ==
    /\ pc = "call"
    /\ attempts' = attempts + 1
    /\ sent' = currentMsgs
    /\ firstSent' = IF cycles = 1 /\ attempts = 0 THEN currentMsgs ELSE firstSent
    /\ wire' = ProviderRequest(provider, currentMsgs)
    /\ \E resp \in Responses :
         LET r == ProviderResponse(provider, resp)
         IN  /\ lastResp' = resp
             /\ firstErr' = IF attempts = 0 THEN r.err ELSE firstErr
             /\ allRetryable' = (allRetryable /\ Contains(r.err, EmptyChoices))
             /\ allEmptyResp' = (allEmptyResp /\ IsEmptySuccess(resp))
             /\ commitMsgRaw' = r.text
             /\ err' = r.err
             /\ IF r.err = Nil
                THEN /\ commitMsg' = CandidateOf(r.text)
                     /\ pc' = "confirm"
                     /\ i' = i
                ELSE IF ShouldRetry(r.err, i) /\ i + 1 < maxRetries
                THEN /\ i' = i + 1
                     /\ pc' = "call"
                     /\ UNCHANGED commitMsg
                ELSE /\ pc' = "done"
                     /\ i' = IF ShouldRetry(r.err, i) THEN i + 1 ELSE i
                     /\ UNCHANGED commitMsg
    /\ lastDecision' = "call"
    /\ UNCHANGED << params, msgs, currentMsgs, world, shown, confirms,
                    editRet, cycles, edits >>

ShowConfirmAtAnyTime ==
    /\ pc \in {"confirm", "done"}
    /\ shown' = << commitMsg >>
    /\ confirms' = confirms + 1
    /\ pc' = "decide"
    /\ UNCHANGED << params, msgs, currentMsgs, i, commitMsg, err, world,
                    callHist, lastDecision, editRet, cycles, edits >>

\* confirmCommitInteractive(commitMsg) displays the message and its form.
ShowConfirm ==
    /\ pc = "confirm"
    /\ shown' = << commitMsg >>
    /\ confirms' = confirms + 1
    /\ pc' = "decide"
    /\ UNCHANGED << params, msgs, currentMsgs, i, commitMsg, err, world,
                    callHist, lastDecision, editRet, cycles, edits >>

ConfirmFailsThenCommits ==
    /\ pc = "decide"
    /\ shown' = <<>>
    /\ err' = <<"form: user aborted">>
    /\ pc' = "done"
    /\ lastDecision' = "confirm-error"
    /\ IF hookFile # ""
       THEN /\ hookContent' = << commitMsg >>
            /\ UNCHANGED << commits, commitArgs >>
       ELSE /\ commitArgs' = Append(commitArgs, commitMsg)
            /\ commits' = Append(commits, TrimSpace(commitMsg))
            /\ UNCHANGED hookContent
    /\ UNCHANGED << params, msgs, currentMsgs, i, commitMsg, callHist,
                    confirms, editRet, cycles, edits >>

\* form.Run() of the confirmation failed.
ConfirmFails ==
    /\ pc = "decide"
    /\ shown' = <<>>
    /\ err' = <<"form: user aborted">>
    /\ pc' = "done"
    /\ lastDecision' = "confirm-error"
    /\ UNCHANGED << params, msgs, currentMsgs, i, commitMsg, world, callHist,
                    confirms, editRet, cycles, edits >>

gitxCommitWithoutCheck(message, gitOK) ==
    IF gitOK
    THEN [err |-> Nil, ran |-> << TrimSpace(message) >>]
    ELSE [err |-> <<"git commit failed">>, ran |-> <<>>]

\* gitx.Commit: the blank message is rejected, else git commit -m runs.
gitxCommit(message, gitOK) ==
    IF TrimSpace(message) = <<>>
    THEN [err |-> <<"commit message cannot be empty">>, ran |-> <<>>]
    ELSE IF gitOK
    THEN [err |-> Nil, ran |-> << TrimSpace(message) >>]
    ELSE [err |-> <<"git commit failed">>, ran |-> <<>>]

DecideCommitTrimsHookText ==
    /\ pc = "decide"
    /\ shown' = <<>>
    /\ \E ioOK \in BOOLEAN :
         IF hookFile # ""
         THEN /\ hookContent' = IF ioOK THEN << TrimSpace(commitMsg) >> ELSE hookContent
              /\ err' = IF ioOK THEN Nil ELSE <<"write hook file: ", "permission denied">>
              /\ UNCHANGED << commits, commitArgs >>
         ELSE /\ commitArgs' = Append(commitArgs, commitMsg)
              /\ commits' = commits \o gitxCommit(commitMsg, ioOK).ran
              /\ err' = gitxCommit(commitMsg, ioOK).err
              /\ UNCHANGED hookContent
    /\ pc' = "done"
    /\ lastDecision' = "commit"
    /\ UNCHANGED << params, msgs, currentMsgs, i, commitMsg, callHist,
                    confirms, editRet, cycles, edits >>

\* ActionCommit: os.WriteFile(hookFile, []byte(commitMsg)) in hook mode, else
\* gitx.Commit(ctx, repoRoot, commitMsg).
DecideCommit ==
    /\ pc = "decide"
    /\ shown' = <<>>
    /\ \E ioOK \in BOOLEAN :
         IF hookFile # ""
         THEN /\ hookContent' = IF ioOK THEN << commitMsg >> ELSE hookContent
              /\ err' = IF ioOK THEN Nil ELSE <<"write hook file: ", "permission denied">>
              /\ UNCHANGED << commits, commitArgs >>
         ELSE /\ commitArgs' = Append(commitArgs, commitMsg)
              /\ commits' = commits \o gitxCommit(commitMsg, ioOK).ran
              /\ err' = gitxCommit(commitMsg, ioOK).err
              /\ UNCHANGED hookContent
    /\ pc' = "done"
    /\ lastDecision' = "commit"
    /\ UNCHANGED << params, msgs, currentMsgs, i, commitMsg, callHist,
                    confirms, editRet, cycles, edits >>

DecideEditKeepsOld ==
    /\ pc = "decide"
    /\ shown' = <<>>
    /\ edits < MaxEdits
    /\ \E t \in EditTexts :
         /\ editRet' = t
         /\ commitMsg' = commitMsg
         /\ pc' = "confirm"
         /\ UNCHANGED err
    /\ edits' = edits + 1
    /\ lastDecision' = "edit"
    /\ UNCHANGED << params, msgs, currentMsgs, i, world, callHist,
                    confirms, cycles >>

\* ActionEdit: editCommitMessageInteractive returns the revised text, or fails.
DecideEdit ==
    /\ pc = "decide"
    /\ shown' = <<>>
    /\ edits < MaxEdits
    /\ \/ \E t \in EditTexts :
            /\ editRet' = t
            /\ commitMsg' = t
            /\ pc' = "confirm"
            /\ lastDecision' = "edit"
            /\ UNCHANGED err
       \/ /\ err' = <<"form: user aborted">>
          /\ pc' = "done"
          /\ lastDecision' = "edit-error"
          /\ UNCHANGED << editRet, commitMsg >>
    /\ edits' = edits + 1
    /\ UNCHANGED << params, msgs, currentMsgs, i, world, callHist,
                    confirms, cycles >>

DecideRegenerateAggregates ==
    /\ pc = "decide"
    /\ shown' = <<>>
    /\ cycles < MaxCycles
    /\ msgs' = Append(msgs, VSCodeMessage(2, commitMsg))
    /\ pc' = "start"
    /\ lastDecision' = "regenerate"
    /\ UNCHANGED << params, currentMsgs, i, commitMsg, err, world, callHist,
                    confirms, editRet, cycles, edits >>

\* ActionRegenerate: goto NextGeneration
DecideRegenerate ==
    /\ pc = "decide"
    /\ shown' = <<>>
    /\ cycles < MaxCycles
    /\ pc' = "start"
    /\ lastDecision' = "regenerate"
    /\ UNCHANGED << params, msgs, currentMsgs, i, commitMsg, err, world,
                    callHist, confirms, editRet, cycles,
                    edits >>

DecideCancelAlwaysNil ==
    /\ pc = "decide"
    /\ shown' = <<>>
    /\ err' = Nil
    /\ pc' = "done"
    /\ lastDecision' = "cancel"
    /\ UNCHANGED << params, msgs, currentMsgs, i, commitMsg, world, callHist,
                    confirms, editRet, cycles, edits >>

\* ActionCancel
DecideCancel ==
    /\ pc = "decide"
    /\ shown' = <<>>
    /\ err' = IF hookFile # "" THEN <<"commit cancelled by user">> ELSE Nil
    /\ pc' = "done"
    /\ lastDecision' = "cancel"
    /\ UNCHANGED << params, msgs, currentMsgs, i, commitMsg, world, callHist,
                    confirms, editRet, cycles, edits >>

Next ==
    \/ BeginGeneration
    \/ ProviderCall
    \/ ShowConfirm
    \/ ConfirmFails
    \/ DecideCommit
    \/ DecideEdit
    \/ DecideRegenerate
    \/ DecideCancel

Spec == Init /\ [][Next]_vars

(***************************************************************************)
(* ExtractOneTextCodeBlock called on its own                               *)
(***************************************************************************)

\* The variables of the loop.
loopVars == << provider, conventional, hookFile, initialMsgs, locals, world,
              callHist, uiHist, cycles, edits >>

\* runInteractiveLoop is not running: a pure function is called on its own.
LoopIdle ==
    /\ provider = "openai"
    /\ conventional = FALSE
    /\ hookFile = ""
    /\ initialMsgs = <<>>
    /\ msgs = <<>>
    /\ currentMsgs = <<>>
    /\ i = 0
    /\ commitMsg = <<>>
    /\ err = Nil
    /\ pc = "idle"
    /\ commits = <<>>
    /\ hookContent = <<>>
    /\ commitArgs = <<>>
    /\ attempts = 0
    /\ cycles = 0
    /\ edits = 0
    /\ sent = <<>>
    /\ firstSent = <<>>
    /\ wire = [system |-> <<>>, messages |-> <<>>]
    /\ lastResp = NoResponse
    /\ firstErr = Nil
    /\ allRetryable = TRUE
    /\ allEmptyResp = TRUE
    /\ commitMsgRaw = <<>>
    /\ shown = <<>>
    /\ confirms = 0
    /\ lastDecision = "none"
    /\ editRet = <<>>

\* Every sequence over the alphabet of length at most n.
SeqsUpTo(alphabet, n) == UNION { [1..k -> alphabet] : k \in 0..n }

MaxTextLen == 4
MaxInnerLen == 3

\* Raw answers of any shape, fences anywhere.
FreeTexts == SeqsUpTo({Fence, "a", "\n", " "}, MaxTextLen)

\* An answer with two fenced blocks, one after the other.
TwoBlocks ==
    << Fence, "\n", "a", ":", " ", "a", "\n", Fence, "\n",
       Fence, "\n", "b", ":", " ", "b", "\n", Fence >>

\* What comes before the opening fence: nothing, whitespace, or lines of prose.
BlockPrefixes ==
    { <<>>, <<" ">>, <<"\n", " ">>, <<"a", ":", "\n">>,
      <<"a", " ", "b", ":", "\n", "\n">> }

\* The language tag after the opening fence.
BlockTags == { <<>>, <<"a">>, <<"a", "b">> }

\* The text between the fence lines.
BlockInners == SeqsUpTo({"a", ":", " ", "\n"}, MaxInnerLen)

\* What comes after the closing fence.
BlockSuffixes == { <<>>, <<" ">>, <<"\n">> }

\* A single fenced block: the opening fence line, the inner text, the
\* closing fence line.
FencedBlock(pre, tag, inner, post) ==
    pre \o <<Fence>> \o tag \o <<"\n">> \o inner \o <<"\n", Fence>> \o post

\* The number of fence marks in the text.
RECURSIVE FenceCount(_)
FenceCount(s) ==
    IF s = <<>> THEN 0
    ELSE (IF Head(s) = Fence THEN 1 ELSE 0) + FenceCount(Tail(s))

InitExtract ==
    /\ LoopIdle
    /\ \/ \E s \in FreeTexts \cup {TwoBlocks} :
            fx = [fn |-> "extract", kind |-> "free", in |-> s, inner |-> <<>>,
                  done |-> FALSE, out |-> [text |-> <<>>, ok |-> FALSE],
                  cand |-> <<>>]
       \/ \E pre \in BlockPrefixes, tag \in BlockTags,
              inner \in BlockInners, post \in BlockSuffixes :
            fx = [fn |-> "extract", kind |-> "block",
                  in |-> FencedBlock(pre, tag, inner, post), inner |-> inner,
                  done |-> FALSE, out |-> [text |-> <<>>, ok |-> FALSE],
                  cand |-> <<>>]

\* commitMsg, ok := ExtractOneTextCodeBlock(commitMsgRaw), and the candidate
\* the loop takes from it.
CallExtract ==
    /\ fx.fn = "extract"
    /\ ~fx.done
    /\ fx' = [fx EXCEPT !.done = TRUE,
                        !.out = ExtractOneTextCodeBlock(fx.in),
                        !.cand = CandidateOf(fx.in)]
    /\ UNCHANGED loopVars

NextExtract == CallExtract

SpecExtract == InitExtract /\ [][NextExtract]_vars

(***************************************************************************)
(* internal/vscodeprompt : BuildAttachment and the summarizers             *)
(***************************************************************************)

\* strings.Index(s, tok) + 1 for a literal that is one token; 0 when absent
IndexOfTok(s, tok) ==
    IF Contains(s, tok)
    THEN CHOOSE k \in 1..Len(s) : s[k] = tok /\ \A j \in 1..(k - 1) : s[j] # tok
    ELSE 0

\* strings.Count(s, tok) for a literal that is one token
CountTok(s, tok) == Cardinality({ k \in 1..Len(s) : s[k] = tok })

RECURSIVE TrimRightCR(_)
\* strings.TrimRight(s, "\r")
TrimRightCR(s) ==
    IF s # <<>> /\ s[Len(s)] = "\r"
    THEN TrimRightCR(SubSeq(s, 1, Len(s) - 1))
    ELSE s

RECURSIVE TrimRightBlank(_)
\* strings.TrimRight(s, " \t")
TrimRightBlank(s) ==
    IF s # <<>> /\ s[Len(s)] \in {" ", "\t"}
    THEN TrimRightBlank(SubSeq(s, 1, Len(s) - 1))
    ELSE s

RECURSIVE ReplaceCRLF(_)
\* strings.ReplaceAll(content, "\r\n", "\n"): every carriage return that a
\* line feed follows is dropped. The text is cut in two halves, never between
\* a carriage return and its line feed.
ReplaceCRLF(s) ==
    IF Len(s) <= 1 THEN s
    ELSE LET m == Len(s) \div 2
         IN  IF s[m] = "\r" /\ s[m + 1] = "\n"
             THEN ReplaceCRLF(SubSeq(s, 1, m - 1)) \o <<"\n">>
                  \o ReplaceCRLF(SubSeq(s, m + 2, Len(s)))
             ELSE ReplaceCRLF(SubSeq(s, 1, m)) \o ReplaceCRLF(SubSeq(s, m + 1, Len(s)))

RECURSIVE PositionsOf(_, _, _, _)
\* the positions a..b of s that hold tok, in increasing order
PositionsOf(s, tok, a, b) ==
    IF a > b THEN <<>>
    ELSE IF a = b THEN (IF s[a] = tok THEN << a >> ELSE <<>>)
    ELSE PositionsOf(s, tok, a, (a + b) \div 2)
         \o PositionsOf(s, tok, (a + b) \div 2 + 1, b)

\* strings.Split(s, "\n"): the pieces between the line feeds, always at
\* least one piece
SplitLines(s) ==
    LET nl == PositionsOf(s, "\n", 1, Len(s))
    IN  [j \in 1..(Len(nl) + 1) |->
           SubSeq(s, IF j = 1 THEN 1 ELSE nl[j - 1] + 1,
                     IF j = Len(nl) + 1 THEN Len(s) ELSE nl[j] - 1)]

DigitChars == << "0", "1", "2", "3", "4", "5", "6", "7", "8", "9" >>

RECURSIVE Digits(_)
\* fmt.Sprintf("%d", n) for n >= 0
Digits(n) ==
    IF n < 10 THEN << DigitChars[n + 1] >>
    ELSE Digits(n \div 10) \o << DigitChars[(n % 10) + 1] >>

\* the padding of the verb %*d: spaces on the left up to the width
PadLeft(width, s) ==
    IF Len(s) >= width THEN s ELSE [j \in 1..(width - Len(s)) |-> " "] \o s

min(a, b) == IF a < b THEN a ELSE b

max(a, b) == IF a > b THEN a ELSE b

\* kept[k] = v on a map[int]string
Put(kept, k, v) == (k :> v) @@ kept

\* filepath.Ext of a path whose last token is its extension, if it has one
PathExt(rel) ==
    IF rel # <<>> /\ rel[Len(rel)] \in {".go", ".GO", ".md", ".MD", ".txt", ".json",
                                       ".yml", ".yaml", ".html", ".xml", ".py", ".sh"}
    THEN rel[Len(rel)] ELSE ""

\* strings.ToLower on an extension
ToLowerExt(e) == IF e = ".GO" THEN ".go" ELSE IF e = ".MD" THEN ".md" ELSE e

RECURSIVE PathBase(_)
\* filepath.Base: what follows the last separator
PathBase(rel) ==
    IF Contains(rel, "/") THEN PathBase(SubSeq(rel, IndexOfTok(rel, "/") + 1, Len(rel)))
    ELSE rel

\* filepath.Join(repoRoot, relPath)
PathJoin(root, rel) == root \o <<"/">> \o rel

summarizeHeadPlusLast(lines, headN, tailN) ==
    LET n == Len(lines)
        h == min(headN, n)
    IN  [k \in (1..h) \cup (IF n >= 1 THEN {n} ELSE {}) |-> TrimRightCR(lines[k])]

summarizeHeadTailSixLast(lines, headN, tailN) ==
    LET n == Len(lines)
        h == min(headN, n)
        start == max(1, n - tailN)
    IN  [k \in (1..h) \cup (start..n) |-> TrimRightCR(lines[k])]

\* the first headN lines and the last tailN lines, each key once
summarizeHeadTail(lines, headN, tailN) ==
    LET n == Len(lines)
        h == min(headN, n)
        start == max(1, n - tailN + 1)
    IN  [k \in (1..h) \cup (start..n) |-> TrimRightCR(lines[k])]

\* the marker that stands for a function body, after one blank
Placeholder == << " ", "{...}" >>

\* strings.HasPrefix(trim, prefix) for the prefixes summarizeGo looks for:
\* the first token of the line is the prefix, or a block opener that begins
\* with it.
StartsWith(trim, prefix) ==
    /\ trim # <<>>
    /\ \/ trim[1] = prefix
       \/ trim[1] = "type (" /\ prefix = "type "
       \/ trim[1] = "const (" /\ prefix = "const "
       \/ trim[1] = "var (" /\ prefix = "var "

\* strings.Count(line, "(")
CountParenOpen(line) ==
    Cardinality({ k \in 1..Len(line) : line[k] \in {"(", "import (", "type (", "const (", "var ("} })

\* the state of summarizeGo before its first line
goStart ==
    [kept |-> <<>>, inImportBlock |-> FALSE, inTypeConstVarBlock |-> FALSE,
     blockDepth |-> 0, inFunc |-> FALSE, funcStartLine |-> 0, funcSig |-> <<>>]

\* one pass of the loop of summarizeGo, on line ln
goLine(st, lines, ln) ==
    LET line == TrimRightCR(lines[ln])
        trim == TrimSpace(line)
    IN  IF StartsWith(trim, "import (") /\ ~st.inFunc
        THEN [st EXCEPT !.inImportBlock = TRUE, !.kept = Put(st.kept, ln, line)]
        ELSE IF st.inImportBlock /\ ~st.inFunc
        THEN [st EXCEPT !.kept = Put(st.kept, ln, line),
                        !.inImportBlock = (trim # <<")">>)]
        ELSE IF ~st.inFunc /\ (StartsWith(trim, "type (") \/ StartsWith(trim, "const (")
                               \/ StartsWith(trim, "var ("))
        THEN [st EXCEPT !.inTypeConstVarBlock = TRUE, !.blockDepth = 1,
                        !.kept = Put(st.kept, ln, line)]
        ELSE IF st.inTypeConstVarBlock /\ ~st.inFunc
        THEN LET depth == st.blockDepth + CountParenOpen(line) - CountTok(line, ")")
             IN  [st EXCEPT !.kept = Put(st.kept, ln, line),
                            !.blockDepth = depth,
                            !.inTypeConstVarBlock = ~(Contains(line, ")") /\ depth <= 0)]
        ELSE IF ~st.inFunc /\ StartsWith(trim, "func ")
        THEN LET idx == IndexOfTok(line, "{")
                 sig == TrimRightBlank(SubSeq(line, 1, idx - 1)) \o Placeholder
                 closed == /\ CountTok(line, "{") - CountTok(line, "}") <= 0
                           /\ Contains(line, "}")
             IN  IF idx > 0
                 THEN [st EXCEPT !.kept = Put(st.kept, ln, sig),
                                 !.inFunc = ~closed,
                                 !.funcStartLine = IF closed THEN 0 ELSE ln,
                                 !.funcSig = IF closed THEN <<>> ELSE sig]
                 ELSE [st EXCEPT !.kept = Put(st.kept, ln, line),
                                 !.inFunc = TRUE,
                                 !.funcStartLine = ln,
                                 !.funcSig = line]
        ELSE IF st.inFunc
        THEN LET kept1 == IF Contains(line, "{") /\ st.funcStartLine # 0
                          THEN Put(st.kept, st.funcStartLine,
                                   TrimRightBlank(st.kept[st.funcStartLine]) \o Placeholder)
                          ELSE st.kept
             IN  IF TrimSpace(line) = <<"}">>
                 THEN [st EXCEPT !.kept = kept1, !.inFunc = FALSE,
                                 !.funcStartLine = 0, !.funcSig = <<>>]
                 ELSE [st EXCEPT !.kept = kept1]
        ELSE IF \/ trim = <<>>
                \/ StartsWith(trim, "package ")
                \/ StartsWith(trim, "type ")
                \/ StartsWith(trim, "const ")
                \/ StartsWith(trim, "var ")
                \/ StartsWith(trim, "//")
        THEN [st EXCEPT !.kept = Put(st.kept, ln, line)]
        ELSE st

RECURSIVE goScan(_, _, _, _)
\* the loop of summarizeGo over the lines a..b: the state after the first
\* half of the lines is the state the second half starts in
goScan(st, lines, a, b) ==
    IF a > b THEN st
    ELSE IF a = b THEN goLine(st, lines, a)
    ELSE LET half == goScan(st, lines, a, (a + b) \div 2)
         IN  IF half.inFunc
             THEN goScan([half EXCEPT !.inFunc = TRUE], lines, (a + b) \div 2 + 1, b)
             ELSE goScan([half EXCEPT !.inFunc = FALSE], lines, (a + b) \div 2 + 1, b)

\* keeps the structural lines and one line for each function; the last line
\* of the file is kept as it is.
summarizeGo(lines) ==
    LET n == Len(lines)
        kept == goScan(goStart, lines, 1, n).kept
    IN  IF n >= 1 THEN Put(kept, n, TrimRightCR(lines[n])) ELSE kept

summarizeByType(relPath, lines) ==
    LET ext == ToLowerExt(PathExt(relPath))
    IN  IF ext \in {".md", ".txt", ".json", ".yml", ".yaml"}
        THEN summarizeHeadPlusLast(lines, 25, 1)
        ELSE IF ext = ".go"
        THEN summarizeGo(lines)
        ELSE summarizeHeadTail(lines, 80, 5)

filepathCommentLine(rel, abs) ==
    LET ext == ToLowerExt(PathExt(rel))
    IN  IF ext \in {".md", ".html", ".xml", ".yaml", ".yml", ".json"}
        THEN <<"<!-- filepath: ">> \o abs \o <<" -->", "\n">>
        ELSE IF ext \in {".py", ".sh"}
        THEN <<"# filepath: ">> \o abs \o <<"\n">>
        ELSE <<"// filepath: ">> \o abs \o <<"\n">>

RECURSIVE keysOf(_, _, _)
\* the keys a..b of the map in an order the range loop may meet them in
\* (here from the largest to the smallest)
keysOf(S, a, b) ==
    IF a > b THEN <<>>
    ELSE IF a = b THEN (IF a \in S THEN << a >> ELSE <<>>)
    ELSE keysOf(S, (a + b) \div 2 + 1, b) \o keysOf(S, a, (a + b) \div 2)

\* the keys in increasing order
sortInts(a) == SortSeq(a, LAMBDA x, y : x < y)

keptAllUntrimmed(lines) == [k \in 1..Len(lines) |-> lines[k]]

\* summarize = false: every line, without its trailing carriage returns
keptAll(lines) == [k \in 1..Len(lines) |-> TrimRightCR(lines[k])]

attachmentWidthNoMinimum(total) == Len(Digits(total))

\* the width of the line-number field
attachmentWidth(total) ==
    IF Len(Digits(total)) < 2 THEN 2 ELSE Len(Digits(total))

\* fmt.Sprintf("%*d: %s\n", width, ln, text)
attachmentEntry(width, ln, text) ==
    PadLeft(width, Digits(ln)) \o <<":", " ">> \o text \o <<"\n">>

\* The strings BuildAttachment writes to its builder, in order: the opening
\* tag, the path comment, one entry for each kept line, the closing tag.
attachmentWrites(repoRoot, relPath, content, summarize) ==
    LET lines == SplitLines(ReplaceCRLF(content))
        total == Len(lines)
        kept == IF summarize THEN summarizeByType(relPath, lines) ELSE keptAll(lines)
        width == attachmentWidth(total)
        keys == sortInts(keysOf(DOMAIN kept, 1, total))
    IN  << <<"<attachment id=\"">> \o PathBase(relPath) \o <<"\" isSummarized=\"">>
             \o << IF summarize THEN "true" ELSE "false" >> \o <<"\">", "\n">>,
           filepathCommentLine(relPath, PathJoin(repoRoot, relPath)) >>
        \o [j \in 1..Len(keys) |-> attachmentEntry(width, keys[j], kept[keys[j]])]
        \o << <<"</attachment>", "\n">> >>

\* the string BuildAttachment returns
BuildAttachment(repoRoot, relPath, content, summarize) ==
    Concat(attachmentWrites(repoRoot, relPath, content, summarize))

(***************************************************************************)
(* BuildAttachment called on its own                                       *)
(***************************************************************************)

MaxContentLen == 4
MaxLines == 101
MaxNest == 2

RepoRoot == <<"/repo">>

\* A documentation file, a Go file, a script and a file without extension.
AttachPaths ==
    { <<"notes", ".MD">>, <<"cmd", "/", "main", ".go">>, <<"run", ".py">>,
      <<"Makefile">> }

\* File contents of a few characters, with every mix of line ends.
SmallContents == SeqsUpTo({"x", "\r", "\n"}, MaxContentLen)

\* A file of n lines, without a newline at its end.
LinesOf(n) == [j \in 1..(2 * n - 1) |-> IF j % 2 = 1 THEN "x" ELSE "\n"]

LongContents == { LinesOf(n) : n \in 1..MaxLines }

RECURSIVE JoinLines(_)
\* the lines, each followed by a newline
JoinLines(ls) ==
    IF ls = <<>> THEN <<>> ELSE Head(ls) \o <<"\n">> \o JoinLines(Tail(ls))

\* k tabs of indentation
Tabs(k) == [j \in 1..k |-> "\t"]

\* The lines of a Go file with one function: its body has nest nested
\* blocks around a statement, and a comment line after them when asked.
GoLines(nest, withComment) ==
    << <<"package ", "main">>, <<>>, <<"func ", "f", "(", ")", " ", "{">> >>
    \o [j \in 1..nest |-> Tabs(j) \o <<"if x ", "{">>]
    \o << Tabs(nest + 1) \o <<"return">> >>
    \o [j \in 1..nest |-> Tabs(nest + 1 - j) \o <<"}">>]
    \o (IF withComment THEN << <<"\t", "//", "c">> >> ELSE <<>>)
    \o << <<"}">> >>

\* The function of GoLines: its first line, its signature, the lines of its
\* body up to the closing brace.
GoFuncs(nest, withComment) ==
    { [start |-> 3, sig |-> <<"func ", "f", "(", ")">>,
       body |-> 4..Len(GoLines(nest, withComment))] }

InitAttach ==
    /\ LoopIdle
    /\ \E rel \in AttachPaths, sum \in BOOLEAN :
         \/ \E c \in SmallContents \cup LongContents :
              fx = [fn |-> "attach", relPath |-> rel, content |-> c,
                    summarize |-> sum, funcs |-> {}, done |-> FALSE,
                    out |-> [text |-> <<>>, writes |-> <<>>]]
         \/ \E nest \in 0..MaxNest, withComment \in BOOLEAN :
              fx = [fn |-> "attach", relPath |-> rel,
                    content |-> JoinLines(GoLines(nest, withComment)),
                    summarize |-> sum, funcs |-> GoFuncs(nest, withComment),
                    done |-> FALSE, out |-> [text |-> <<>>, writes |-> <<>>]]

\* BuildAttachment(repoRoot, relPath, content, summarize)
CallBuildAttachment ==
    /\ fx.fn = "attach"
    /\ ~fx.done
    /\ fx' = [fx EXCEPT
                !.done = TRUE,
                !.out = [text |-> BuildAttachment(RepoRoot, fx.relPath, fx.content, fx.summarize),
                         writes |-> attachmentWrites(RepoRoot, fx.relPath, fx.content, fx.summarize)]]
    /\ UNCHANGED loopVars

NextAttach == CallBuildAttachment

SpecAttach == InitAttach /\ [][NextAttach]_vars

\* The numbered entries among the strings written: all but the opening tag,
\* the path comment and the closing tag.
Entries(writes) == SubSeq(writes, 3, Len(writes) - 1)

\* The line-number field of an entry: what stands before the colon.
EntryField(e) == SubSeq(e, 1, IndexOfTok(e, ":") - 1)

\* The text of an entry: what stands between ": " and the newline.
EntryText(e) == SubSeq(e, IndexOfTok(e, ":") + 2, Len(e) - 1)

RECURSIVE ParseDigits(_)
\* the number a run of decimal digits stands for
ParseDigits(ds) ==
    IF ds = <<>> THEN 0
    ELSE 10 * ParseDigits(SubSeq(ds, 1, Len(ds) - 1))
         + (CHOOSE d \in 0..9 : DigitChars[d + 1] = ds[Len(ds)])

\* The line number of an entry.
EntryNumber(e) == ParseDigits(TrimLeftSpace(EntryField(e)))

RECURSIVE DecimalDigits(_)
\* how many decimal digits n has
DecimalDigits(n) == IF n < 10 THEN 1 ELSE 1 + DecimalDigits(n \div 10)

\* The call of BuildAttachment has returned.
Attached == fx.fn = "attach" /\ fx.done

(***************************************************************************)
(* BuildVSCodeMessages called on its own                                   *)
(***************************************************************************)

MaxCommits == 2
MaxChanges == 2

\* Subject lines of earlier commits.
CommitSubjects == { <<"fix: typo">>, <<"feat: add hook mode">> }

\* Changes as buildPromptData hands them over: the path, the staged diff,
\* the attachment of the original file.
PromptChanges ==
    { [Path |-> <<"main", ".go">>,
       Diff |-> <<"+package main", "\n">>,
       OriginalCode |-> BuildAttachment(RepoRoot, <<"main", ".go">>, <<"x", "\n">>, FALSE)],
      [Path |-> <<"notes", ".MD">>,
       Diff |-> <<"-b", "\n", "+c", "\n", "\n">>,
       OriginalCode |-> BuildAttachment(RepoRoot, <<"notes", ".MD">>, <<"x", "\n", "x">>, TRUE)],
      [Path |-> <<"Makefile">>,
       Diff |-> <<>>,
       OriginalCode |-> BuildAttachment(RepoRoot, <<"Makefile">>, <<>>, FALSE)] }

\* The text of the instructions file: none, blank, one line, with line ends.
CustomInstructionTexts ==
    { <<>>, <<" ", "\n">>, <<"Use English.">>, <<"Use English.", "\n", "\n">> }

\* cfg.PromptTemplate: none, one with both placeholders, one without any.
PromptTemplates ==
    { <<>>,
      <<"Hello ", "{{.RepositoryName}}", " on branch ", "{{.BranchName}}">>,
      <<"Be brief.">> }

\* The Data values BuildVSCodeMessages is called with (buildPromptData's
\* result with SystemPromptTemplate set by Run).
PromptInputs ==
    [RepositoryName : { <<"commitgen">> },
     BranchName : { <<"main">>, <<>> },
     RecentUserCommits : SeqsUpTo(CommitSubjects, MaxCommits),
     RecentRepoCommits : { <<>>, << <<"fix: typo">> >>,
                           << <<"feat: add hook mode">>, <<"fix: typo">> >> },
     Changes : SeqsUpTo(PromptChanges, MaxChanges),
     CustomInstructions : CustomInstructionTexts,
     SystemPromptTemplate : PromptTemplates]

InitPrompt ==
    /\ LoopIdle
    /\ \E d \in PromptInputs :
         fx = [fn |-> "prompt", d |-> d, done |-> FALSE, out |-> <<>>]

\* vscodeMsgs := vscodeprompt.BuildVSCodeMessages(data)
CallBuildVSCodeMessages ==
    /\ fx.fn = "prompt"
    /\ ~fx.done
    /\ fx' = [fx EXCEPT !.done = TRUE, !.out = BuildVSCodeMessages(fx.d)]
    /\ UNCHANGED loopVars

NextPrompt == CallBuildVSCodeMessages

SpecPrompt == InitPrompt /\ [][NextPrompt]_vars

\* The call of BuildVSCodeMessages has returned.
Prompted == fx.fn = "prompt" /\ fx.done

\* The text of the System message and of the User message that were built.
BuiltSystemText == fx.out[1].Content[1].Text
BuiltUserText == fx.out[2].Content[1].Text

(***************************************************************************)
(* internal/app/run.go : shouldIgnore and buildPromptData                  *)
(***************************************************************************)

RECURSIVE filepathMatch(_, _)
\* filepath.Match(pattern, name): "*" stands for any run of tokens without
\* a separator, "?" for one token that is not a separator, any other token
\* for itself. A malformed pattern (here an unclosed "[") matches nothing:
\* the caller drops the error.
filepathMatch(pattern, name) ==
    IF Contains(pattern, "[") THEN FALSE
    ELSE IF pattern = <<>> THEN name = <<>>
    ELSE IF Head(pattern) = "*"
    THEN \E k \in 0..Len(name) :
            /\ \A j \in 1..k : name[j] # "/"
            /\ filepathMatch(Tail(pattern), SubSeq(name, k + 1, Len(name)))
    ELSE IF Head(pattern) = "?"
    THEN name # <<>> /\ Head(name) # "/" /\ filepathMatch(Tail(pattern), Tail(name))
    ELSE name # <<>> /\ Head(name) = Head(pattern)
         /\ filepathMatch(Tail(pattern), Tail(name))

RECURSIVE shouldIgnoreWholePath(_, _)
shouldIgnoreWholePath(pattern, ignores) ==
    IF ignores = <<>> THEN FALSE
    ELSE IF Head(ignores) = PathBase(pattern) \/ Head(ignores) = pattern THEN TRUE
    ELSE IF filepathMatch(Head(ignores), pattern) THEN TRUE
    ELSE shouldIgnoreWholePath(pattern, Tail(ignores))

RECURSIVE shouldIgnore(_, _)
\* the loop over the ignore patterns, left at the first hit
shouldIgnore(pattern, ignores) ==
    IF ignores = <<>> THEN FALSE
    ELSE IF Head(ignores) = PathBase(pattern) \/ Head(ignores) = pattern THEN TRUE
    ELSE IF filepathMatch(Head(ignores), PathBase(pattern)) THEN TRUE
    ELSE shouldIgnore(pattern, Tail(ignores))

\* gitx.StagedChanges: the first maxFiles staged files (10 when maxFiles is
\* not positive), each with its diff
StagedChanges(staged, maxFiles) ==
    LET cap == IF maxFiles <= 0 THEN 10 ELSE maxFiles
    IN  IF Len(staged) > cap THEN SubSeq(staged, 1, cap) ELSE staged

defaultIgnores ==
    << <<"go", ".sum">>, <<"package-lock", ".json">>, <<"yarn", ".lock">>,
       <<"pnpm-lock", ".yaml">>, <<"*", ".map">>, <<"*", ".svg">>,
       <<"*", ".min", ".js">>, <<"*", ".min", ".css">> >>

\* vscodeprompt.Data{}
EmptyData ==
    [RepositoryName |-> <<>>, BranchName |-> <<>>, RecentUserCommits |-> <<>>,
     RecentRepoCommits |-> <<>>, Changes |-> <<>>, CustomInstructions |-> <<>>,
     SummarizeAttachments |-> FALSE]

capReachedLate(n, maxFiles) == n > maxFiles

\* if len(filteredChanges) >= maxFiles { break }
capReached(n, maxFiles) == n >= maxFiles

RECURSIVE filterChanges(_, _, _, _, _, _)
\* The loop over the fetched changes from index k on: it stops at the cap,
\* skips an ignored path, and appends the change with its attachment. (The
\* diffs and files of the model are below the size that gets truncated.)
filterChanges(changes, k, filteredChanges, maxFiles, allIgnores, summarize) ==
    IF k > Len(changes) \/ capReached(Len(filteredChanges), maxFiles)
    THEN filteredChanges
    ELSE IF shouldIgnore(changes[k].Path, allIgnores)
    THEN filterChanges(changes, k + 1, filteredChanges, maxFiles, allIgnores, summarize)
    ELSE filterChanges(changes, k + 1,
             Append(filteredChanges,
                    [Path |-> changes[k].Path,
                     Diff |-> changes[k].Diff,
                     OriginalCode |-> BuildAttachment(RepoRoot, changes[k].Path,
                                                      changes[k].Orig, summarize)]),
             maxFiles, allIgnores, summarize)

\* buildPromptData on a repository with the given staged files: the error
\* it returns and the Data. gitOK says whether git diff --staged worked. A
\* negative maxFiles makes make([]Change, 0, maxFiles) panic.
buildPromptData(staged, gitOK, maxFiles, summarize, customInstructions, ignoredFiles) ==
    LET fetchFiles == IF maxFiles * 2 < 20 THEN 20 ELSE maxFiles * 2
        changes == StagedChanges(staged, fetchFiles)
        allIgnores == defaultIgnores \o ignoredFiles
        filteredChanges == filterChanges(changes, 1, <<>>, maxFiles, allIgnores, summarize)
    IN  IF ~gitOK
        THEN [err |-> <<"git diff --staged: exit status 128">>, data |-> EmptyData]
        ELSE IF Len(changes) = 0
        THEN [err |-> <<"no staged changes. Run: git add -A">>, data |-> EmptyData]
        ELSE IF maxFiles < 0
        THEN [err |-> <<"panic: runtime error: makeslice: cap out of range">>,
              data |-> EmptyData]
        ELSE IF Len(filteredChanges) = 0
        THEN [err |-> <<"all staged files were ignored (checked ">>
                      \o Digits(Len(changes)) \o <<" files)">>,
              data |-> EmptyData]
        ELSE [err |-> Nil,
              data |-> [RepositoryName |-> <<"commitgen">>,
                        BranchName |-> <<"main">>,
                        RecentUserCommits |-> <<>>,
                        RecentRepoCommits |-> << <<"fix: typo">> >>,
                        Changes |-> filteredChanges,
                        CustomInstructions |-> customInstructions,
                        SummarizeAttachments |-> summarize]]

(***************************************************************************)
(* shouldIgnore and buildPromptData called on their own                    *)
(***************************************************************************)

MaxIgnores == 2
MaxStaged == 24
MaxFilesArg == 11

\* Staged paths the ignore check is asked about.
IgnorePaths ==
    { <<"go", ".sum">>, <<"pkg", "/", "go", ".sum">>, <<"README", ".md">>,
      <<"assets", "/", "logo", ".svg">>, <<"bar", ".svg">>, <<"svg">>,
      <<"a", "/", "b", ".min", ".js">>, <<"x", ".go">> }

\* Ignore patterns: names, paths and globs.
IgnorePatterns ==
    { <<"go", ".sum">>, <<"*", ".svg">>, <<"pkg", "/", "go", ".sum">>,
      <<"assets", "/", "*">>, <<"?", ".go">>, <<"[", ".go">> }

\* The k-th staged file: its path, its diff and its content at HEAD.
StagedFile(k, ignored) ==
    [Path |-> IF ignored THEN <<"img", "/", "f">> \o Digits(k) \o <<".svg">>
              ELSE <<"src", "/", "f">> \o Digits(k) \o <<".go">>,
     Diff |-> <<"+x", "\n">>,
     Orig |-> <<"x">>]

\* n staged files, in staged order. The mode says which of them an ignore
\* pattern hits: none, all, every second one, the first one, the first
\* twenty.
StagedList(n, mode) ==
    [k \in 1..n |-> StagedFile(k, \/ mode = "all"
                                  \/ mode = "odd" /\ k % 2 = 1
                                  \/ mode = "first" /\ k = 1
                                  \/ mode = "first20" /\ k <= 20)]

InitData ==
    /\ LoopIdle
    /\ \/ \E path \in IgnorePaths, ignores \in SeqsUpTo(IgnorePatterns, MaxIgnores) :
            fx = [fn |-> "ignore", path |-> path, ignores |-> ignores,
                  done |-> FALSE, out |-> FALSE]
       \/ \E n \in 0..MaxStaged, mode \in {"none", "all", "odd", "first", "first20"}, maxFiles \in (-1)..MaxFilesArg,
             userIgnores \in { <<>>, << <<"*", ".go">> >> }, gitOK \in BOOLEAN :
            /\ ~gitOK => (mode = "none" /\ userIgnores = <<>> /\ maxFiles = 1)
            /\ fx = [fn |-> "data", staged |-> StagedList(n, mode), gitOK |-> gitOK,
                     maxFiles |-> maxFiles, ignoredFiles |-> userIgnores,
                     done |-> FALSE, out |-> [err |-> Nil, data |-> EmptyData]]

\* shouldIgnore(ch.Path, allIgnores)
CallShouldIgnore ==
    /\ fx.fn = "ignore"
    /\ ~fx.done
    /\ fx' = [fx EXCEPT !.done = TRUE, !.out = shouldIgnore(fx.path, fx.ignores)]
    /\ UNCHANGED loopVars

\* data, err := buildPromptData(ctx, repoRoot, ...)
CallBuildPromptData ==
    /\ fx.fn = "data"
    /\ ~fx.done
    /\ fx' = [fx EXCEPT !.done = TRUE,
                        !.out = buildPromptData(fx.staged, fx.gitOK, fx.maxFiles,
                                                FALSE, <<>>, fx.ignoredFiles)]
    /\ UNCHANGED loopVars

NextData ==
    \/ CallShouldIgnore
    \/ CallBuildPromptData

SpecData == InitData /\ [][NextData]_vars

\* The staged files buildPromptData gets to see.
FetchedOf(staged, maxFiles) ==
    SubSeq(staged, 1, min(Len(staged), max(20, 2 * maxFiles)))

(***************************************************************************)
(* internal/app/run.go : Run, for the commands that build the prompt       *)
(***************************************************************************)

\* strings.ToLower on a provider name
ToLower(p) ==
    IF p = "Ollama" THEN "ollama" ELSE IF p = "GEMINI" THEN "gemini" ELSE p

\* os.ReadFile(cfg.InstructionsPath): one file is there, any other is not.
ReadFile(path) ==
    IF path = <<"i.txt">>
    THEN [err |-> Nil, text |-> <<"Use English.">>]
    ELSE [err |-> <<"open ">> \o path \o <<": no such file or directory">>,
          text |-> <<>>]

\* The early returns of Run before the switch on the command, given what
\* reading the instructions file and buildPromptData returned.
runPrepared(repoOK, path, fileErr, built) ==
    IF ~repoOK
    THEN [err |-> <<"not inside a git repository. Use --repo /path/to/repo">>,
          vscodeMsgs |-> <<>>]
    ELSE IF TrimSpace(path) # <<>> /\ fileErr # Nil
    THEN [err |-> <<"read instructions file: ">> \o fileErr, vscodeMsgs |-> <<>>]
    ELSE IF built.err # Nil
    THEN [err |-> built.err, vscodeMsgs |-> <<>>]
    ELSE [err |-> Nil, vscodeMsgs |-> BuildVSCodeMessages(built.data)]

\* Run up to the switch on the command: the repository root, the
\* instructions file, buildPromptData and BuildVSCodeMessages.
runPrepare(cfg, repoOK, staged) ==
    runPrepared(repoOK, cfg.InstructionsPath, ReadFile(cfg.InstructionsPath).err,
                buildPromptData(staged, TRUE, cfg.MaxFiles, cfg.Summarize,
                                IF TrimSpace(cfg.InstructionsPath) # <<>>
                                THEN ReadFile(cfg.InstructionsPath).text
                                ELSE <<>>,
                                cfg.IgnoredFiles))

selectProviderNoGeminiKeyCheck(cfg) ==
    IF TrimSpace(cfg.Model) = <<>>
    THEN [err |-> <<"missing model. Set flags or env COMMITAI_MODEL">>, provider |-> ""]
    ELSE IF ToLower(cfg.Provider) = "ollama"
    THEN [err |-> Nil, provider |-> "ollama"]
    ELSE IF ToLower(cfg.Provider) = "anthropic"
    THEN IF cfg.AnthropicKey = ""
         THEN [err |-> <<"missing anthropic key. Set flags or env COMMITAI_ANTHROPIC_KEY">>,
               provider |-> ""]
         ELSE [err |-> Nil, provider |-> "anthropic"]
    ELSE IF ToLower(cfg.Provider) = "gemini"
    THEN [err |-> Nil, provider |-> "gemini"]
    ELSE IF ToLower(cfg.Provider) \in {"openai", ""}
    THEN [err |-> Nil, provider |-> "openai"]
    ELSE [err |-> <<"unknown provider: ", cfg.Provider,
                    " (supported: openai, ollama, anthropic, gemini)">>,
          provider |-> ""]

\* case "suggest", up to the call of runInteractiveLoop: the model check and
\* the switch on the lower-cased provider name
selectProvider(cfg) ==
    IF TrimSpace(cfg.Model) = <<>>
    THEN [err |-> <<"missing model. Set flags or env COMMITAI_MODEL">>, provider |-> ""]
    ELSE IF ToLower(cfg.Provider) = "ollama"
    THEN [err |-> Nil, provider |-> "ollama"]
    ELSE IF ToLower(cfg.Provider) = "anthropic"
    THEN IF cfg.AnthropicKey = ""
         THEN [err |-> <<"missing anthropic key. Set flags or env COMMITAI_ANTHROPIC_KEY">>,
               provider |-> ""]
         ELSE [err |-> Nil, provider |-> "anthropic"]
    ELSE IF ToLower(cfg.Provider) = "gemini"
    THEN IF cfg.GeminiKey = ""
         THEN [err |-> <<"missing gemini key. Set flags or env COMMITAI_GEMINI_KEY">>,
               provider |-> ""]
         ELSE [err |-> Nil, provider |-> "gemini"]
    ELSE IF ToLower(cfg.Provider) \in {"openai", ""}
    THEN [err |-> Nil, provider |-> "openai"]
    ELSE [err |-> <<"unknown provider: ", cfg.Provider,
                    " (supported: openai, ollama, anthropic, gemini)">>,
          provider |-> ""]

\* Run returns before the loop: with an error, or after dumpPrompt.
runReturns(e, out) ==
    [loop |-> FALSE, err |-> e, dumped |-> out, provider |-> "openai",
     vscodeMsgs |-> <<>>]

\* The switch on the command, given what the steps before it returned.
runCommand(cfg, prep, sel) ==
    IF prep.err # Nil THEN runReturns(prep.err, <<>>)
    ELSE IF cfg.Command = "dump-prompt" THEN runReturns(Nil, prep.vscodeMsgs)
    ELSE IF cfg.Command = "suggest"
    THEN IF sel.err # Nil THEN runReturns(sel.err, <<>>)
         ELSE [loop |-> TRUE, err |-> Nil, dumped |-> <<>>,
               provider |-> sel.provider, vscodeMsgs |-> prep.vscodeMsgs]
    ELSE runReturns(<<"unknown -cmd=", cfg.Command,
                      " (use suggest | dump-prompt | config)">>, <<>>)

\* What Run does before it returns or enters runInteractiveLoop: the error
\* it returns, what dumpPrompt printed, and whether the loop is entered and
\* with which provider and messages.
runOutcome(cfg, repoOK, staged) ==
    runCommand(cfg, runPrepare(cfg, repoOK, staged), selectProvider(cfg))

\* The configurations Run is started with: the commands that build the
\* prompt (and a misspelt one), dumping to standard output.
RunConfigs ==
    [Command : {"suggest", "dump-prompt", "sugest"},
     Model : { <<>>, <<" ">>, <<"gpt">> },
     Provider : {"", "openai", "Ollama", "anthropic", "GEMINI", "mistral"},
     AnthropicKey : {"", "ak"},
     GeminiKey : {"", "gk"},
     MaxFiles : {10},
     Summarize : {FALSE},
     IgnoredFiles : { <<>> },
     InstructionsPath : { <<>>, <<"i.txt">>, <<"missing.txt">> },
     Conventional : {FALSE},
     HookFile : HookFiles]

InitRun ==
    /\ LoopIdle
    /\ \E cfg \in RunConfigs, repoOK \in BOOLEAN,
          staged \in { StagedList(0, "none"), StagedList(1, "none"),
                       StagedList(1, "all") } :
          fx = [fn |-> "run", cfg |-> cfg, repoOK |-> repoOK, staged |-> staged,
                done |-> FALSE, out |-> runReturns(Nil, <<>>)]

\* Run(ctx, cfg), to its return or to the entry of runInteractiveLoop.
Run ==
    /\ pc = "idle"
    /\ fx.fn = "run"
    /\ ~fx.done
    /\ fx' = [fx EXCEPT !.done = TRUE,
                        !.out = runOutcome(fx.cfg, fx.repoOK, fx.staged)]
    /\ provider' = fx'.out.provider
    /\ conventional' = IF fx'.out.loop THEN fx.cfg.Conventional ELSE conventional
    /\ hookFile' = IF fx'.out.loop THEN fx.cfg.HookFile ELSE hookFile
    /\ initialMsgs' = fx'.out.vscodeMsgs
    /\ msgs' = fx'.out.vscodeMsgs
    /\ err' = fx'.out.err
    /\ pc' = IF fx'.out.loop THEN "start" ELSE "done"
    /\ UNCHANGED << currentMsgs, i, commitMsg, world, callHist, uiHist, cycles, edits >>

NextRun ==
    \/ Run
    \/ Next

SpecRun == InitRun /\ [][NextRun]_vars

(***************************************************************************)
(* Properties                                                              *)
(***************************************************************************)

\* C1: when every provider call of a cycle returns the empty-result error
\* (the one the loop recognises, "empty choices"), the cycle makes exactly 5
\* calls and then returns that error; no confirmation was shown in the cycle.
C1_EmptyResultFiveAttempts ==
    /\ attempts <= 5
    /\ (pc = "call" /\ attempts > 0) => (allRetryable /\ attempts < 5 /\ confirms = 0)
    /\ (pc = "done" /\ lastDecision = "call" /\ allRetryable)
          => /\ attempts = 5
             /\ confirms = 0
             /\ err # Nil
             /\ Contains(err, EmptyChoices)

C1_Witness ==
    pc = "done" /\ lastDecision = "call" /\ allRetryable /\ attempts = 5

\* C2: a provider error other than the empty-result error ends the run at
\* once with that error; when it is the first call of the cycle that fails
\* so, the cycle made exactly one attempt.
C2_OtherErrorIsFatal ==
    /\ (lastDecision = "call" /\ err # Nil /\ ~Contains(err, EmptyChoices))
          => pc = "done"
    /\ (attempts >= 1 /\ firstErr # Nil /\ ~Contains(firstErr, EmptyChoices))
          => (attempts = 1 /\ pc = "done" /\ err = firstErr /\ confirms = 0)

C2_Witness ==
    /\ pc = "done" /\ attempts = 1
    /\ firstErr # Nil /\ ~Contains(firstErr, EmptyChoices)

\* C3 (as claimed): with every adapter, a success status with no usable
\* content comes back as the retryable empty-result error, and a cycle that
\* meets nothing else makes the 5 attempts.
C3_EmptyResultUniform ==
    /\ (lastDecision = "call" /\ IsEmptySuccess(lastResp))
          => (err # Nil /\ Contains(err, EmptyChoices))
    /\ (pc = "done" /\ lastDecision = "call" /\ allEmptyResp) => attempts = 5

\* The exchange failed: no response, a non-success status or a body that
\* does not decode.
IsHTTPFailure(resp) ==
    ~resp.transport \/ resp.status # StatusOK \/ ~resp.json

\* C4 (as claimed): with every adapter, a failed exchange ends the cycle
\* with an error and is not retried; for a non-success status the error
\* text carries the status code and the raw body.
C4_HTTPFailureFatalWithDetail ==
    (lastDecision = "call" /\ IsHTTPFailure(lastResp))
       => /\ pc = "done"
          /\ err # Nil
          /\ (lastResp.transport /\ lastResp.status # StatusOK)
                => /\ Contains(err, lastResp.status)
                   /\ \A k \in 1..Len(lastResp.raw) : Contains(err, lastResp.raw[k])

\* The text of the base System message and of the base User message.
SystemText == initialMsgs[1].Content[1].Text
UserText == initialMsgs[2].Content[1].Text

\* C5 (as claimed): in the request of every adapter the System text is in no
\* user-role message, and the User text is neither in a system-role message
\* nor in the system side channel.
C5_RolesNeverCrossed ==
    /\ \A k \in 1..Len(wire.messages) :
         /\ wire.messages[k].role = "user"
               => ~Contains(wire.messages[k].content, SystemText[1])
         /\ wire.messages[k].role = "system"
               => ~Contains(wire.messages[k].content, UserText[1])
    /\ ~Contains(wire.system, UserText[1])

\* C6: the base list is never mutated: it is always the System message
\* followed by the User message that Run built.
C6_BaseNeverMutated ==
    /\ msgs = initialMsgs
    /\ Len(msgs) = 2
    /\ msgs[1].Role = 0
    /\ msgs[2].Role = 1
    /\ \E d \in PromptDatas : msgs = BuildVSCodeMessages(d)

C6_Witness ==
    pc = "done" /\ conventional /\ cycles = 2 /\ edits >= 1 /\ attempts >= 2

\* C7: every provider call is given the base pair, followed by exactly one
\* reminder in conventional mode and by nothing otherwise.
C7_OneReminderPerCall ==
    sent # <<>>
       => /\ sent = IF conventional
                    THEN initialMsgs \o << reminderMsg >>
                    ELSE initialMsgs
          /\ Cardinality({ k \in 1..Len(sent) : sent[k] = reminderMsg })
                = IF conventional THEN 1 ELSE 0

C7_Witness ==
    conventional /\ cycles = 2 /\ attempts >= 2 /\ sent # <<>>

\* C8: an Edit decision makes no provider call and starts no cycle; the
\* candidate becomes the text the edit form returned, and the confirmation
\* that follows displays that text.
C8_EditDoesNotRegenerate ==
    /\ [](lastDecision = "edit"
            => /\ pc \in {"confirm", "decide"}
               /\ commitMsg = editRet
               /\ (pc = "decide" => shown = << editRet >>))
    /\ [][edits' = edits + 1
            => /\ attempts' = attempts
               /\ cycles' = cycles
               /\ sent' = sent
               /\ wire' = wire
               /\ pc' \in {"confirm", "done"}]_vars

C8_Witness ==
    lastDecision = "edit" /\ pc = "decide" /\ edits = 2 /\ shown = << editRet >>

\* C9: every provider call of a run is given the message list of the first
\* call, and the candidate displayed after a generation comes from the new
\* answer alone.
C9_RegenerateSameBase ==
    /\ sent # <<>> => sent = firstSent
    /\ (pc = "decide" /\ lastDecision = "call")
          => shown = << CandidateOf(commitMsgRaw) >>

C9_Witness ==
    cycles = 2 /\ edits >= 1 /\ pc = "decide" /\ lastDecision = "call"

\* C10: Cancel ends the loop with no commit and no file written; the result
\* is an error exactly when a hook file is set.
C10_CancelOutcome ==
    lastDecision = "cancel"
       => /\ pc = "done"
          /\ commits = <<>>
          /\ hookContent = <<>>
          /\ (hookFile # "" => err # Nil)
          /\ (hookFile = "" => err = Nil)

C10_Witness ==
    lastDecision = "cancel" /\ pc = "done" /\ hookFile # "" /\ err # Nil


\* C11: a Commit decision in hook mode writes the current candidate (the text
\* of the last edit, if the decision follows an edit) unchanged to the hook
\* file and does not call gitx.Commit; in interactive mode it calls
\* gitx.Commit with the current candidate and writes no file.
C11_CommitDestination ==
    /\ [](lastDecision = "commit" =>
            IF hookFile # ""
            THEN /\ commitArgs = <<>>
                 /\ commits = <<>>
                 /\ \/ err = Nil /\ hookContent = << commitMsg >>
                    \/ err # Nil /\ hookContent = <<>>
            ELSE /\ commitArgs = << commitMsg >>
                 /\ hookContent = <<>>)
    /\ [][(lastDecision' = "commit" /\ lastDecision = "edit")
             => /\ commitMsg' = editRet
                /\ (hookFile # "" /\ err' = Nil) => hookContent' = << editRet >>
                /\ hookFile = "" => commitArgs' = << editRet >>]_vars

\* A hook-mode commit wrote a candidate that has surrounding whitespace.
C11_Witness ==
    /\ lastDecision = "commit"
    /\ hookFile # ""
    /\ err = Nil
    /\ hookContent = << commitMsg >>
    /\ TrimSpace(commitMsg) # commitMsg

\* C12: a run that ended on a provider error, on retry exhaustion, on an
\* error of the confirmation or edit form, or on Cancel has made no commit
\* and written no hook file.
C12_NoPartialState ==
    (pc = "done" /\ lastDecision \in {"call", "confirm-error", "edit-error", "cancel"})
        => /\ commits = <<>>
           /\ commitArgs = <<>>
           /\ hookContent = <<>>

\* A run ended on an error of the confirmation form after an edit.
C12_Witness ==
    /\ pc = "done"
    /\ lastDecision = "confirm-error"
    /\ edits > 0
    /\ commits = <<>>
    /\ hookContent = <<>>

\* C13: the confirmation is entered only after a provider call of the current
\* cycle succeeded; a decision leads to the end (Commit, Cancel, or an error
\* of a form), back to the confirmation (Edit) or to a new generation
\* (Regenerate); nothing happens after the end, and a run makes at most one
\* commit or hook-file write.
C13_StateMachine ==
    /\ [](/\ pc \in {"confirm", "decide"}
             => /\ attempts >= 1
                /\ err = Nil
                /\ ProviderResponse(provider, lastResp).err = Nil
          /\ Len(commits) + Len(hookContent) <= 1
          /\ Len(commitArgs) + Len(hookContent) <= 1)
    /\ [][/\ pc # "done"
          /\ pc' = "confirm" => (pc = "call" \/ (pc = "decide" /\ lastDecision' = "edit"))
          /\ pc' = "decide" => pc = "confirm"
          /\ pc = "decide" =>
                \/ pc' = "done" /\ lastDecision' \in {"commit", "cancel", "confirm-error", "edit-error"}
                \/ pc' = "confirm" /\ lastDecision' = "edit"
                \/ pc' = "start" /\ lastDecision' = "regenerate"
          /\ (commits' # commits \/ hookContent' # hookContent \/ commitArgs' # commitArgs)
                => (pc = "decide" /\ pc' = "done" /\ lastDecision' = "commit")]_vars

\* A second cycle reached its confirmation and the run ended with a commit.
C13_Witness ==
    /\ pc = "done"
    /\ lastDecision = "commit"
    /\ cycles = 2
    /\ Len(commits) = 1

\* C14: extraction succeeds only on a text with exactly one fenced block;
\* on a text with no block or with more than one block it reports ok = FALSE
\* and the whole raw text becomes the candidate.
C14_ExactlyOneBlockOrRaw ==
    (fx.fn = "extract" /\ fx.done) =>
        /\ fx.out.ok => FenceCount(fx.in) \in {2, 3}
        /\ FenceCount(fx.in) \notin {2, 3} => (~fx.out.ok /\ fx.cand = fx.in)

\* C15: on a single fenced block (with or without a language tag, with
\* whitespace around it or lines of prose before it) the result is the inner
\* text without its leading and trailing whitespace, and ok = TRUE; on a text
\* without a fence the result is the trimmed text and ok = FALSE.
C15_SingleBlockExtracted ==
    (fx.fn = "extract" /\ fx.done) =>
        /\ fx.kind = "block" => fx.out = [text |-> TrimSpace(fx.inner), ok |-> TRUE]
        /\ ~Contains(fx.in, Fence) => fx.out = [text |-> TrimSpace(fx.in), ok |-> FALSE]

\* A tagged block after a line of prose, its inner text padded with
\* whitespace, has been extracted.
C15_Witness ==
    /\ fx.fn = "extract"
    /\ fx.done
    /\ fx.kind = "block"
    /\ fx.in = FencedBlock(<<"a", ":", "\n">>, <<"a", "b">>, <<" ", "a", "\n">>, <<" ">>)
    /\ fx.out = [text |-> <<"a">>, ok |-> TRUE]

\* C16: with summarize = false the attachment has one numbered entry for
\* each line of the content, numbered 1..totalLines in increasing order, and
\* entry i holds line i without its trailing carriage returns.
C16_AllLinesNumbered ==
    (Attached /\ ~fx.summarize) =>
        LET lines == SplitLines(ReplaceCRLF(fx.content))
            es == Entries(fx.out.writes)
        IN  /\ Len(lines) = 1 + CountTok(fx.content, "\n")
            /\ Len(es) = Len(lines)
            /\ fx.out.text = Concat(fx.out.writes)
            /\ \A j \in 1..Len(es) :
                 /\ EntryNumber(es[j]) = j
                 /\ (EntryText(es[j]) = <<>> \/ EntryText(es[j])[Len(EntryText(es[j]))] # "\r")
                 /\ \E r \in 0..Len(lines[j]) :
                      lines[j] = EntryText(es[j]) \o [q \in 1..r |-> "\r"]

\* A content whose first line ends in two carriage returns before the line
\* feed was attached in full.
C16_Witness ==
    /\ Attached
    /\ ~fx.summarize
    /\ fx.content = <<"x", "\r", "\r", "\n">>
    /\ Len(Entries(fx.out.writes)) = 2
    /\ EntryText(Entries(fx.out.writes)[1]) = <<"x">>

\* C17: for an empty content the attachment has the opening tag, the path
\* comment and the closing tag and no numbered entry, summarized or not.
C17_EmptyContentNoEntry ==
    (Attached /\ fx.content = <<>>) =>
        /\ Len(fx.out.writes) = 3
        /\ Entries(fx.out.writes) = <<>>

\* C18: for a content of n lines the head/tail summarizer (extensions other
\* than documentation, data and Go) keeps the lines 1..min(80, n) and
\* max(1, n - 4)..n, each once and in increasing order.
C18_HeadTailIndexSet ==
    (Attached /\ fx.summarize /\ fx.relPath \in { <<"run", ".py">>, <<"Makefile">> }) =>
        LET n == 1 + CountTok(fx.content, "\n")
            es == Entries(fx.out.writes)
            lo == IF 80 < n THEN 80 ELSE n
            hi == IF n - 4 > 1 THEN n - 4 ELSE 1
        IN  /\ { EntryNumber(es[j]) : j \in 1..Len(es) } = (1..lo) \cup (hi..n)
            /\ \A j \in 1..(Len(es) - 1) : EntryNumber(es[j]) < EntryNumber(es[j + 1])
            /\ (n <= 80 => Len(es) = n)

\* A file of 90 lines was summarized to its first 80 and last 5 lines, and a
\* file of 3 lines was kept whole.
C18_Witness ==
    /\ Attached
    /\ fx.summarize
    /\ fx.relPath = <<"run", ".py">>
    /\ fx.content = LinesOf(90)
    /\ Len(Entries(fx.out.writes)) = 85

\* C19: in every attachment each entry has a line-number field that is as
\* wide as the larger of 2 and the number of decimal digits of the largest
\* kept line number, the number right-aligned in it.
C19_NumberFieldWidth ==
    Attached =>
        LET es == Entries(fx.out.writes)
            nums == { EntryNumber(es[j]) : j \in 1..Len(es) }
            largest == CHOOSE m \in nums : \A k \in nums : k <= m
            width == IF DecimalDigits(largest) > 2 THEN DecimalDigits(largest) ELSE 2
        IN  \A j \in 1..Len(es) :
              /\ Len(EntryField(es[j])) = width
              /\ Len(TrimLeftSpace(EntryField(es[j]))) = DecimalDigits(EntryNumber(es[j]))
              /\ \A q \in 1..Len(EntryField(es[j])) :
                   EntryField(es[j])[q] = " " \/ q > width - DecimalDigits(EntryNumber(es[j]))

\* A summarized documentation file of 101 lines has three-column numbers.
C19_Witness ==
    /\ Attached
    /\ fx.summarize
    /\ fx.relPath = <<"notes", ".MD">>
    /\ fx.content = LinesOf(101)
    /\ Len(Entries(fx.out.writes)) = 26
    /\ EntryField(Entries(fx.out.writes)[1]) = <<" ", " ", "1">>

\* C20: the summary of a Go file keeps each function as one line, its
\* signature followed by exactly one placeholder, and keeps no line of the
\* body, however deep the body nests.
C20_FunctionCollapsed ==
    (Attached /\ fx.summarize /\ fx.relPath = <<"cmd", "/", "main", ".go">>) =>
        LET es == Entries(fx.out.writes)
        IN  \A f \in fx.funcs :
              /\ \E j \in 1..Len(es) :
                   /\ EntryNumber(es[j]) = f.start
                   /\ EntryText(es[j]) = f.sig \o Placeholder
              /\ \A j \in 1..Len(es) : EntryNumber(es[j]) \notin f.body

\* C28: gitx.Commit rejects a blank message before it runs git, so in
\* interactive mode git commit never runs with a blank message, whatever
\* was generated, edited or regenerated before.
C28_NoBlankGitCommit ==
    /\ \A k \in 1..Len(commits) : TrimSpace(commits[k]) # <<>>
    /\ (lastDecision = "commit" /\ hookFile = "" /\ TrimSpace(commitMsg) = <<>>)
         => /\ commits = <<>>
            /\ err = <<"commit message cannot be empty">>

\* In interactive mode a candidate cleared by an edit was handed to
\* gitx.Commit and rejected.
C28_Witness ==
    /\ lastDecision = "commit"
    /\ hookFile = ""
    /\ edits > 0
    /\ commitArgs = << <<>> >>
    /\ commits = <<>>
    /\ err = <<"commit message cannot be empty">>

\* C29: the retry budget belongs to the cycle. A new cycle starts with the
\* counters at zero, a cycle never makes more than 5 calls, and a call that
\* succeeds after k < 5 empty-result errors is the call k + 1 of its cycle
\* and leads to the confirmation.
C29_RetryBudgetPerCycle ==
    /\ [](/\ attempts <= maxRetries
          /\ pc = "call" => (attempts = i /\ i < maxRetries)
          /\ (pc = "confirm" /\ lastDecision = "call") => attempts = i + 1)
    /\ [][/\ pc = "start" => (i' = 0 /\ attempts' = 0 /\ pc' = "call")
          /\ (pc = "call" /\ ProviderResponse(provider, lastResp').err = Nil)
               => (pc' = "confirm" /\ attempts' = attempts + 1 /\ confirms' = 0)]_vars

\* The second cycle of a run succeeded on its fifth call.
C29_Witness ==
    /\ cycles = 2
    /\ pc = "confirm"
    /\ lastDecision = "call"
    /\ attempts = 5
    /\ i = 4

\* C30: a run that ends with success after a Commit decision has committed
\* or written a message that is not blank, in hook mode as in interactive
\* mode.
C30_NoBlankSuccess ==
    (pc = "done" /\ lastDecision = "commit" /\ err = Nil) =>
        IF hookFile # ""
        THEN Len(hookContent) = 1 /\ TrimSpace(hookContent[1]) # <<>>
        ELSE Len(commits) = 1 /\ TrimSpace(commits[1]) # <<>>

\* C21: the user message has no user-commits section (no tag, no heading)
\* when RecentUserCommits is empty, and else has the section once, with one
\* "- " line for each entry, in the order of the entries.
C21_UserCommitsSection ==
    Prompted =>
        LET u == BuiltUserText
            entries == fx.d.RecentUserCommits
            a == IndexOfTok(u, "<user-commits>\n")
            b == IndexOfTok(u, "\n</user-commits>\n")
            lines == SplitLines(SubSeq(u, a + 2, b - 1))
        IN  IF entries = <<>>
            THEN /\ a = 0
                 /\ b = 0
                 /\ ~Contains(u, "# RECENT USER COMMITS (For reference only, do not copy!):\n")
            ELSE /\ CountTok(u, "<user-commits>\n") = 1
                 /\ CountTok(u, "\n</user-commits>\n") = 1
                 /\ a < b
                 /\ u[a + 1] = "# RECENT USER COMMITS (For reference only, do not copy!):\n"
                 /\ Len(lines) = Len(entries) + 1
                 /\ lines[Len(lines)] = <<>>
                 /\ \A k \in 1..Len(entries) : lines[k] = <<"- ">> \o entries[k]

\* A message with two user commits has their two bullets in order.
C21_Witness ==
    /\ Prompted
    /\ fx.d.RecentUserCommits = << <<"feat: add hook mode">>, <<"fix: typo">> >>
    /\ Contains(BuiltUserText, "<user-commits>\n")

\* C22: the user message has one original-code block and one code-changes
\* block for each change, in the order of the changes, the attachment before
\* the diff; and it always has the custom-instructions tags, with nothing
\* between them when the instructions are empty or blank.
C22_ChangePairsAndCustomSection ==
    Prompted =>
        LET u == BuiltUserText
            chs == fx.d.Changes
            o == PositionsOf(u, "<original-code>\n", 1, Len(u))
            oe == PositionsOf(u, "\n</original-code>\n", 1, Len(u))
            c == PositionsOf(u, "<code-changes>\n", 1, Len(u))
            ce == PositionsOf(u, "</code-changes>\n", 1, Len(u))
            ci == IndexOfTok(u, "<custom-instructions>\n")
            cie == IndexOfTok(u, "\n</custom-instructions>\n")
        IN  /\ Len(o) = Len(chs) /\ Len(oe) = Len(chs)
            /\ Len(c) = Len(chs) /\ Len(ce) = Len(chs)
            /\ \A k \in 1..Len(chs) :
                 /\ o[k] < oe[k] /\ oe[k] < c[k] /\ c[k] < ce[k]
                 /\ k < Len(chs) => ce[k] < o[k + 1]
                 /\ SubSeq(u, o[k] + 2, oe[k] - 1) = chs[k].OriginalCode
                 /\ SubSeq(u, c[k] + 4, ce[k] - 4) = TrimRightNewline(chs[k].Diff)
            /\ CountTok(u, "<custom-instructions>\n") = 1
            /\ CountTok(u, "\n</custom-instructions>\n") = 1
            /\ ci < cie
            /\ TrimSpace(fx.d.CustomInstructions) = <<>> => cie = ci + 1

\* A message for two changes and blank instructions was built.
C22_Witness ==
    /\ Prompted
    /\ Len(fx.d.Changes) = 2
    /\ fx.d.Changes[1] # fx.d.Changes[2]
    /\ fx.d.CustomInstructions = <<" ", "\n">>
    /\ CountTok(BuiltUserText, "<original-code>\n") = 2

\* C23: with an override template the System text is the template with the
\* RepositoryName and BranchName placeholders replaced, and holds nothing of
\* the built-in text; without a template it is the built-in text.
C23_TemplateReplacesSystemText ==
    Prompted =>
        LET t == fx.d.SystemPromptTemplate
            rendered ==
                Concat([k \in 1..Len(t) |->
                          IF t[k] = "{{.RepositoryName}}" THEN fx.d.RepositoryName
                          ELSE IF t[k] = "{{.BranchName}}" THEN fx.d.BranchName
                          ELSE << t[k] >>])
        IN  IF t # <<>>
            THEN /\ BuiltSystemText = rendered
                 /\ \A k \in 1..Len(systemPromptText) :
                      ~Contains(BuiltSystemText, systemPromptText[k])
            ELSE BuiltSystemText = systemPromptText

\* C24: shouldIgnore is true exactly when a pattern equals the path, equals
\* its base name, or glob-matches its base name; with the patterns go.sum and
\* *.svg it ignores pkg/go.sum and assets/logo.svg and not README.md.
C24_ShouldIgnoreExactly ==
    (fx.fn = "ignore" /\ fx.done) =>
        /\ fx.out = (\E k \in 1..Len(fx.ignores) :
                        \/ fx.ignores[k] = fx.path
                        \/ fx.ignores[k] = PathBase(fx.path)
                        \/ filepathMatch(fx.ignores[k], PathBase(fx.path)))
        /\ fx.ignores = << <<"go", ".sum">>, <<"*", ".svg">> >> =>
              /\ fx.path = <<"pkg", "/", "go", ".sum">> => fx.out = TRUE
              /\ fx.path = <<"assets", "/", "logo", ".svg">> => fx.out = TRUE
              /\ fx.path = <<"README", ".md">> => fx.out = FALSE

\* assets/logo.svg was checked against go.sum and *.svg and is ignored.
C24_Witness ==
    /\ fx.fn = "ignore"
    /\ fx.done
    /\ fx.ignores = << <<"go", ".sum">>, <<"*", ".svg">> >>
    /\ fx.path = <<"assets", "/", "logo", ".svg">>
    /\ fx.out = TRUE

\* C25: the all-files-ignored error is reported only when there were staged
\* changes and every one that was fetched is ignored, the no-staged-changes
\* error only when there were none, and neither of them when a fetched
\* staged file matches no ignore pattern, whatever maxFiles is.
C25_IgnoredAndEmptyErrors ==
    (fx.fn = "data" /\ fx.done /\ fx.gitOK) =>
        LET fetched == FetchedOf(fx.staged, fx.maxFiles)
            ignores == defaultIgnores \o fx.ignoredFiles
            allIgnored == \A k \in 1..Len(fetched) : shouldIgnore(fetched[k].Path, ignores)
            saysIgnored == fx.out.err # Nil
                           /\ fx.out.err[1] = "all staged files were ignored (checked "
            saysNone == fx.out.err = <<"no staged changes. Run: git add -A">>
        IN  /\ saysIgnored => (fx.staged # <<>> /\ allIgnored)
            /\ saysNone => fx.staged = <<>>
            /\ ~allIgnored => (~saysIgnored /\ ~saysNone)

\* C26: the Data buildPromptData returns has at most maxFiles changes; they
\* are the first staged files that are not ignored, in staged order, and no
\* ignored file is among them.
C26_ChangesCappedAndFiltered ==
    (fx.fn = "data" /\ fx.done /\ fx.out.err = Nil) =>
        LET chs == fx.out.data.Changes
            ignores == defaultIgnores \o fx.ignoredFiles
            fetched == FetchedOf(fx.staged, fx.maxFiles)
            wanted == SelectSeq(fetched, LAMBDA f : ~shouldIgnore(f.Path, ignores))
        IN  /\ Len(chs) <= fx.maxFiles
            /\ Len(chs) = min(fx.maxFiles, Len(wanted))
            /\ \A k \in 1..Len(chs) :
                 /\ chs[k].Path = wanted[k].Path
                 /\ chs[k].Diff = wanted[k].Diff
                 /\ ~shouldIgnore(chs[k].Path, ignores)
                 /\ chs[k].Path[1] = "src"

\* Of 24 staged files, every second one ignored, the first 11 of the others
\* were taken.
C26_Witness ==
    /\ fx.fn = "data"
    /\ fx.done
    /\ fx.out.err = Nil
    /\ Len(fx.staged) = 24
    /\ fx.maxFiles = 11
    /\ fx.staged[1].Path[1] = "img"
    /\ fx.staged[2].Path[1] = "src"
    /\ Len(fx.out.data.Changes) = 11

\* C27: in the suggest command a missing model, a missing key of the
\* selected backend (Anthropic or Gemini) or an unknown provider name ends
\* the run with an error, and no provider call, confirmation, commit or
\* file write has taken place. When nothing else went wrong before, the
\* error names the missing setting.
C27_BadConfigFatalBeforeAnyCall ==
    LET cfg == fx.cfg
        name == ToLower(cfg.Provider)
        noModel == TrimSpace(cfg.Model) = <<>>
        noKey == \/ name = "anthropic" /\ cfg.AnthropicKey = ""
                 \/ name = "gemini" /\ cfg.GeminiKey = ""
        unknown == name \notin {"", "openai", "ollama", "anthropic", "gemini"}
        prepared == /\ fx.repoOK
                    /\ cfg.InstructionsPath # <<"missing.txt">>
                    /\ fx.staged = StagedList(1, "none")
    IN  (fx.fn = "run" /\ cfg.Command = "suggest" /\ (noModel \/ noKey \/ unknown)) =>
            /\ pc \in {"idle", "done"}
            /\ attempts = 0 /\ cycles = 0 /\ sent = <<>> /\ wire.messages = <<>>
            /\ shown = <<>> /\ confirms = 0
            /\ commits = <<>> /\ commitArgs = <<>> /\ hookContent = <<>>
            /\ fx.out.dumped = <<>>
            /\ fx.done => (pc = "done" /\ err # Nil)
            /\ (fx.done /\ prepared) =>
                 err = IF noModel
                       THEN <<"missing model. Set flags or env COMMITAI_MODEL">>
                       ELSE IF name = "anthropic"
                       THEN <<"missing anthropic key. Set flags or env COMMITAI_ANTHROPIC_KEY">>
                       ELSE IF name = "gemini"
                       THEN <<"missing gemini key. Set flags or env COMMITAI_GEMINI_KEY">>
                       ELSE <<"unknown provider: ", cfg.Provider,
                              " (supported: openai, ollama, anthropic, gemini)">>

\* A hook-mode suggest run with a model, the Gemini backend and no Gemini
\* key (an Anthropic key is set) has ended with the missing-key error.
C27_Witness ==
    /\ fx.fn = "run"
    /\ fx.done
    /\ fx.cfg.Command = "suggest"
    /\ fx.cfg.Model = <<"gpt">>
    /\ fx.cfg.Provider = "GEMINI"
    /\ fx.cfg.GeminiKey = ""
    /\ fx.cfg.AnthropicKey = "ak"
    /\ fx.cfg.HookFile # ""
    /\ fx.repoOK
    /\ fx.staged = StagedList(1, "none")
    /\ pc = "done"
    /\ err = <<"missing gemini key. Set flags or env COMMITAI_GEMINI_KEY">>
====
